---- MODULE Spec2Model ----
(***************************************************************************)
(* A model of the detector primitive of vandmc (src/source/geometry.cpp):  *)
(* an oriented rectangular prism with six lazily cached face centres and   *)
(* the ray queries PlaneIntersect, IntersectPrimitive, CheckBounds and     *)
(* GetApparentThickness.                                                   *)
(*                                                                         *)
(* Numbers.  A C++ double is modelled by an exact extended rational        *)
(* <<n, d>>: a finite value other than zero is n/d in lowest terms with    *)
(* d > 0; <<0, 1>> is +0.0 and <<0, -1>> is -0.0; <<1, 0>> is +inf,        *)
(* <<-1, 0>> is -inf and <<0, 0>> is NaN.  The specials and the sign of    *)
(* zero follow IEEE 754, which fixes what a division by zero yields.       *)
(* Rounding is not modelled.  A length (Vector3::Length, Dist3d) is a      *)
(* square root; it is carried by its radicand (LengthSq, DistSq), which    *)
(* orders and compares exactly as the root does.                           *)
(***************************************************************************)
EXTENDS Integers, Sequences, FiniteSets, TLC

(***************************************************************************)
(* Double arithmetic                                                       *)
(***************************************************************************)
Abs(n) == IF n < 0 THEN -n ELSE n

Sgn(n) == IF n > 0 THEN 1 ELSE IF n < 0 THEN -1 ELSE 0

RECURSIVE GCD(_, _)
GCD(a, b) == IF b = 0 THEN a ELSE GCD(b, a % b)

\* n/d in lowest terms, for n # 0 and d > 0.
Norm(n, d) ==
  IF d = 1 THEN <<n, 1>>
  ELSE LET g == GCD(Abs(n), d) IN <<n \div g, d \div g>>

R(n) == <<n, 1>>

NaN == <<0, 0>>

IsNaN(a) == a[1] = 0 /\ a[2] = 0

IsZero(a) == a[1] = 0 /\ a[2] # 0

IsFinite(a) == a[2] # 0

\* 1 or -1: the sign bit of a double that is not NaN.
SignOf(a) == IF a[1] > 0 THEN 1 ELSE IF a[1] < 0 THEN -1 ELSE a[2]

RNeg(a) == IF a[1] = 0 THEN <<0, -a[2]>> ELSE <<-a[1], a[2]>>

RMul(a, b) ==
  IF a[1] # 0 /\ b[1] # 0 /\ a[2] # 0 /\ b[2] # 0
  THEN LET g == GCD(Abs(a[1]), b[2])
           h == GCD(Abs(b[1]), a[2])
       IN  <<(a[1] \div g) * (b[1] \div h), (a[2] \div h) * (b[2] \div g)>>
  ELSE IF IsNaN(a) \/ IsNaN(b) THEN NaN
  ELSE IF a[2] = 0 \/ b[2] = 0
       THEN (IF a[1] = 0 \/ b[1] = 0 THEN NaN ELSE <<SignOf(a) * SignOf(b), 0>>)
       ELSE <<0, SignOf(a) * SignOf(b)>>

RAdd(a, b) ==
  IF a[1] # 0 /\ b[1] # 0 /\ a[2] # 0 /\ b[2] # 0
  THEN LET g == GCD(a[2], b[2])
           n == a[1] * (b[2] \div g) + b[1] * (a[2] \div g)
       IN  IF n = 0 THEN <<0, 1>> ELSE Norm(n, (a[2] \div g) * b[2])
  ELSE IF IsNaN(a) \/ IsNaN(b) THEN NaN
  ELSE IF a[2] = 0 THEN (IF b[2] = 0 /\ a # b THEN NaN ELSE a)
  ELSE IF b[2] = 0 THEN b
  ELSE IF a[1] # 0 THEN a
  ELSE IF b[1] # 0 THEN b
  ELSE IF a = b THEN a ELSE <<0, 1>>

RSub(a, b) == RAdd(a, RNeg(b))

RDiv(a, b) ==
  IF a[1] # 0 /\ b[1] # 0 /\ a[2] # 0 /\ b[2] # 0
  THEN RMul(a, <<b[2] * Sgn(b[1]), Abs(b[1])>>)
  ELSE IF IsNaN(a) \/ IsNaN(b) THEN NaN
  ELSE IF IsZero(b)
       THEN (IF IsZero(a) THEN NaN ELSE <<SignOf(a) * SignOf(b), 0>>)
  ELSE IF b[2] = 0
       THEN (IF a[2] = 0 THEN NaN ELSE <<0, SignOf(a) * SignOf(b)>>)
  ELSE IF a[2] = 0 THEN <<SignOf(a) * SignOf(b), 0>>
  ELSE <<0, SignOf(a) * SignOf(b)>>

RHalf(a) == RDiv(a, R(2))

\* The comparison operators of doubles: false on NaN, and -0.0 = +0.0.
RLe(a, b) ==
  /\ ~IsNaN(a)
  /\ ~IsNaN(b)
  /\ IF a[2] = 0 /\ b[2] = 0 THEN a[1] <= b[1]
     ELSE IF a[2] = 0 \/ b[2] = 0
     THEN a[1] * Abs(b[2]) <= b[1] * Abs(a[2])
     ELSE LET g == GCD(Abs(a[2]), Abs(b[2]))
          IN  a[1] * (Abs(b[2]) \div g) <= b[1] * (Abs(a[2]) \div g)

RLt(a, b) == RLe(a, b) /\ ~RLe(b, a)

RGe(a, b) == RLe(b, a)

REq(a, b) == RLe(a, b) /\ RLe(b, a)

\* The exact square root of a finite rational that has one.
ISqrt(n) == CHOOSE k \in 0..n : k * k = n

RSqrt(a) ==
  IF a[2] = 0 \/ a[1] = 0 THEN a ELSE <<ISqrt(a[1]), ISqrt(a[2])>>

(***************************************************************************)
(* Vector3                                                                 *)
(***************************************************************************)
Vec(x, y, z) == <<R(x), R(y), R(z)>>

VAdd(u, v) == <<RAdd(u[1], v[1]), RAdd(u[2], v[2]), RAdd(u[3], v[3])>>

VSub(u, v) == <<RSub(u[1], v[1]), RSub(u[2], v[2]), RSub(u[3], v[3])>>

VScale(u, s) == <<RMul(u[1], s), RMul(u[2], s), RMul(u[3], s)>>

Dot(u, v) == RAdd(RAdd(RMul(u[1], v[1]), RMul(u[2], v[2])), RMul(u[3], v[3]))

\* The radicand of Vector3::Length.
LengthSq(u) == Dot(u, u)

\* Vector3::Normalize: every component divided by the length.
Normalize(u) ==
  LET len == RSqrt(LengthSq(u))
  IN  <<RDiv(u[1], len), RDiv(u[2], len), RDiv(u[3], len)>>

\* The radicand of Dist3d: the length of v2 - v1.
DistSq(v1, v2) == LengthSq(VSub(v2, v1))

VFinite(u) == IsFinite(u[1]) /\ IsFinite(u[2]) /\ IsFinite(u[3])

\* Equality of the three components as doubles.
VEq(u, v) == REq(u[1], v[1]) /\ REq(u[2], v[2]) /\ REq(u[3], v[3])

(***************************************************************************)
(* Primitive: state                                                        *)
(***************************************************************************)
VARIABLES
  position,    \* centre of the prism
  detX,        \* local width axis
  detY,        \* local length axis
  detZ,        \* local depth axis
  length,      \* extent along detY
  width,       \* extent along detX
  depth,       \* extent along detZ
  need_set,    \* the face centres must be recomputed before use
  GlobalFace,  \* the six cached face centres, faces 0..5 at indices 1..6
  call,        \* the last operation called and its arguments
  ret,         \* what the last operation returned
  P,           \* PlaneIntersect's out-parameter
  P1,          \* IntersectPrimitive's out-parameters
  P2,
  face1,
  face2,
  px,
  py,
  pz,
  face_count,  \* IntersectPrimitive's count of struck faces
  intersect1,  \* GetApparentThickness's out-parameters
  intersect2,
  divzero,     \* the last operation divided by a zero denominator
  init,               \* AngularDist: an Initialize has succeeded
  num_points,         \* AngularDist: number of tabulated points
  com_theta,          \* AngularDist: centre-of-mass angles, index i at i+1
  dsigma_domega,      \* AngularDist: differential cross-sections
  integral,           \* AngularDist: cumulative integral
  reaction_xsection,  \* AngularDist: total reaction cross-section
  rate,               \* AngularDist: reaction rate
  drawn,              \* number of rand() calls made so far
  use_table,          \* RangeTable: the arrays are allocated
  num_entries,        \* RangeTable: length of the arrays
  energy,             \* RangeTable: energies, index i at i+1
  range,              \* RangeTable: ranges, index i at i+1
  dist_traveled,      \* GetNewE's out-parameter
  polygon,            \* the RegularPolygon object
  t1,                 \* GetT1T2's out-parameters
  t2,
  Nwanted,            \* vikar: number of desired detections
  InCoincidence,      \* vikar: ejectile and recoil must both be recorded
  PerfectDet,         \* vikar: no detector efficiency is applied
  vandle_bars,        \* vikar: the detectors, bar i at index i+1
  Ndetected,          \* vikar: events detected
  Nsimulated,         \* vikar: beam particles simulated
  NbarHit,            \* vikar: geometric hits of ejectile detectors
  Nreactions,         \* vikar: reactions in the target
  beam_stopped,       \* vikar: beam particles stopped in the target
  chunk,              \* vikar: detections between two progress reports
  flag,               \* vikar: a detection has not been reported yet
  HitDetect1,         \* vikar: the hit points IntersectPrimitive writes
  HitDetect2,
  eject_mult,         \* vikar: EJECTdata.eject_mult
  recoil_mult,        \* vikar: RECOILdata.recoil_mult
  entries,            \* vikar: entries filled into VIKARtree
  report,             \* vikar: Ndetected of each progress report printed
  pc,                 \* where main is; "fault" once the program trapped
  pack,               \* the DataPack object
  disk,               \* the files the DataPack can write, by name
  y_out               \* Interpolate's out-parameter y

geom == <<position, detX, detY, detZ, length, width, depth>>

outs ==
  <<ret, P, P1, P2, face1, face2, px, py, pz, face_count, intersect1,
    intersect2, divzero>>

\* The AngularDist object.
dist ==
  <<init, num_points, com_theta, dsigma_domega, integral, reaction_xsection,
    rate>>

\* The RangeTable object.
table == <<use_table, num_entries, energy, range>>

\* The state of the plane geometry.
planar == <<polygon, t1, t2>>

\* What the input file of vikar sets.
setup == <<Nwanted, InCoincidence, PerfectDet, vandle_bars, chunk>>

\* The counters of the event loop of vikar.
counters == <<Ndetected, Nsimulated, NbarHit, Nreactions, beam_stopped>>

\* The state of main of vikar.
loop ==
  <<setup, counters, flag, HitDetect1, HitDetect2, eject_mult, recoil_mult,
    entries, report, pc>>

\* The state of the drivers and tools.
\* The DataPack object and the files it writes.
packs == <<pack, disk>>

tools == <<loop, packs, y_out>>

\* The state outside the Primitive.
elsewhere == <<dist, drawn, table, dist_traveled, planar, tools>>

\* The state of the Primitive and its out-parameters, ret apart.
primitive ==
  <<geom, need_set, GlobalFace, P, P1, P2, face1, face2, px, py, pz,
    face_count, intersect1, intersect2, divzero>>

vars == <<geom, need_set, GlobalFace, call, outs, elsewhere>>

\* An out-parameter the last operation did not write holds whatever its
\* caller left in it; these stand for "not written by this call".
Unassigned == <<>>

\* GlobalFace before _set_face_coords has ever run.
NotComputed ==
  <<Unassigned, Unassigned, Unassigned, Unassigned, Unassigned, Unassigned>>

NoFace == -1

NoReturn == <<>>

\* The geometry of the prism as one value.
Prim ==
  [position |-> position, detX |-> detX, detY |-> detY, detZ |-> detZ,
   length |-> length, width |-> width, depth |-> depth]

(***************************************************************************)
(* Primitive: the functions of geometry.cpp                                *)
(***************************************************************************)
\* _set_face_coords with face 2 placed by the width instead of the depth: the
\* fault the front-and-back property must detect.
FaceCoordsWidthForDepth(pr) ==
  << VSub(pr.position, VScale(pr.detZ, RHalf(pr.depth))),
     VAdd(pr.position, VScale(pr.detX, RHalf(pr.width))),
     VAdd(pr.position, VScale(pr.detZ, RHalf(pr.width))),
     VSub(pr.position, VScale(pr.detX, RHalf(pr.width))),
     VAdd(pr.position, VScale(pr.detY, RHalf(pr.length))),
     VSub(pr.position, VScale(pr.detY, RHalf(pr.length))) >>

\* Primitive::_set_face_coords: the centre of each face.
FaceCoords(pr) ==
  << VSub(pr.position, VScale(pr.detZ, RHalf(pr.depth))),
     VAdd(pr.position, VScale(pr.detX, RHalf(pr.width))),
     VAdd(pr.position, VScale(pr.detZ, RHalf(pr.depth))),
     VSub(pr.position, VScale(pr.detX, RHalf(pr.width))),
     VAdd(pr.position, VScale(pr.detY, RHalf(pr.length))),
     VSub(pr.position, VScale(pr.detY, RHalf(pr.length))) >>

\* FreshFaces with the need_set test left out once the cache is filled: the
\* fault the cache-coherence property must detect.
FreshFacesOnce(pr, needSet, gf) ==
  IF gf = NotComputed THEN FaceCoords(pr) ELSE gf

\* if(need_set){ _set_face_coords(); }
FreshFaces(pr, needSet, gf) == IF needSet THEN FaceCoords(pr) ELSE gf

\* Primitive::GetUnitVector
GetUnitVector(pr, face_) ==
  IF face_ = 0 THEN pr.detZ
  ELSE IF face_ = 1 THEN pr.detX
  ELSE IF face_ = 2 THEN VScale(pr.detZ, R(-1))
  ELSE IF face_ = 3 THEN VScale(pr.detX, R(-1))
  ELSE IF face_ = 4 THEN pr.detY
  ELSE IF face_ = 5 THEN VScale(pr.detY, R(-1))
  ELSE Vec(0, 0, 0)

\* Primitive::GetLocalCoords
GetLocalCoords(pr, world_coords) ==
  LET temp == VSub(world_coords, pr.position)
  IN  <<Dot(temp, pr.detX), Dot(temp, pr.detY), Dot(temp, pr.detZ)>>

\* CheckBounds with faces 0 and 2 testing x against the length: the fault the
\* hit-iff-struck property must detect.
CheckBoundsLengthForWidth(pr, face_, x_, y_, z_) ==
  LET inX == RGe(x_, RNeg(RHalf(pr.width))) /\ RLe(x_, RHalf(pr.width))
      inL == RGe(x_, RNeg(RHalf(pr.length))) /\ RLe(x_, RHalf(pr.length))
      inY == RGe(y_, RNeg(RHalf(pr.length))) /\ RLe(y_, RHalf(pr.length))
      inZ == RGe(z_, RNeg(RHalf(pr.depth))) /\ RLe(z_, RHalf(pr.depth))
  IN  IF face_ = 0 \/ face_ = 2 THEN inL /\ inY
      ELSE IF face_ = 1 \/ face_ = 3 THEN inZ /\ inY
      ELSE IF face_ = 4 \/ face_ = 5 THEN inX /\ inZ
      ELSE FALSE

\* CheckBounds with strict comparisons and no test of the face number: the
\* fault the inclusive-bounds property must detect.
CheckBoundsStrict(pr, face_, x_, y_, z_) ==
  LET inX == RLt(RNeg(RHalf(pr.width)), x_) /\ RLt(x_, RHalf(pr.width))
      inY == RLt(RNeg(RHalf(pr.length)), y_) /\ RLt(y_, RHalf(pr.length))
      inZ == RLt(RNeg(RHalf(pr.depth)), z_) /\ RLt(z_, RHalf(pr.depth))
  IN  IF face_ = 0 \/ face_ = 2 THEN inX /\ inY
      ELSE IF face_ = 1 \/ face_ = 3 THEN inZ /\ inY
      ELSE inX /\ inZ

\* Primitive::CheckBounds
CheckBounds(pr, face_, x_, y_, z_) ==
  LET inX == RGe(x_, RNeg(RHalf(pr.width))) /\ RLe(x_, RHalf(pr.width))
      inY == RGe(y_, RNeg(RHalf(pr.length))) /\ RLe(y_, RHalf(pr.length))
      inZ == RGe(z_, RNeg(RHalf(pr.depth))) /\ RLe(z_, RHalf(pr.depth))
  IN  IF face_ = 0 \/ face_ = 2 THEN inX /\ inY
      ELSE IF face_ = 1 \/ face_ = 3 THEN inZ /\ inY
      ELSE IF face_ = 4 \/ face_ = 5 THEN inX /\ inZ
      ELSE FALSE

\* PlaneIntersect's quotient:
\* t = (GlobalFace[face_].Dot(unit) - offset_.Dot(unit)) / direction_.Dot(unit)
PlaneT(centre, offset_, direction_, unit) ==
  RDiv(RSub(Dot(centre, unit), Dot(offset_, unit)), Dot(direction_, unit))

\* PlaneIntersect returning true whatever the sign of t: the fault the
\* candidates-ahead property must detect.
PlanePointAnyT(offset_, direction_, t, divisor) ==
  [ret |-> ~IsNaN(t),
   P |-> VAdd(offset_, VScale(direction_, t)),
   divzero |-> IsZero(divisor)]

\* PlaneIntersect's result for a quotient t: the value returned (t >= 0), the
\* point offset_ + direction_*t written to P, whether the divisor was zero.
PlanePoint(offset_, direction_, t, divisor) ==
  [ret |-> RGe(t, R(0)),
   P |-> VAdd(offset_, VScale(direction_, t)),
   divzero |-> IsZero(divisor)]

\* PlaneIntersect for the plane through centre with normal unit.
PlaneThrough(centre, offset_, direction_, unit) ==
  PlanePoint(offset_, direction_, PlaneT(centre, offset_, direction_, unit),
             Dot(direction_, unit))

\* Primitive::PlaneIntersect, after its face coordinates are set.
PlaneIntersect(pr, gf, offset_, direction_, face_) ==
  PlaneThrough(gf[face_ + 1], offset_, direction_, GetUnitVector(pr, face_))

\* The bookkeeping with every later struck face overwriting P2 and face2: the
\* fault the scan-order property must detect.
FaceStruckKeepLast(acc, i, ray, loc) ==
  IF acc.face_count = 0
  THEN [acc EXCEPT !.px = loc[1], !.py = loc[2], !.pz = loc[3],
                   !.P1 = ray, !.face1 = i, !.face_count = 1]
  ELSE [acc EXCEPT !.P2 = ray, !.face2 = i, !.face_count = @ + 1]

\* IntersectPrimitive's bookkeeping for face i, struck at ray with local
\* coordinates loc.
FaceStruck(acc, i, ray, loc) ==
  IF acc.face_count = 0
  THEN [acc EXCEPT !.px = loc[1], !.py = loc[2], !.pz = loc[3],
                   !.P1 = ray, !.face1 = i, !.face_count = 1]
  ELSE IF acc.face_count = 1
  THEN IF RLt(LengthSq(ray), LengthSq(acc.P1))
       THEN [acc EXCEPT !.P2 = ray, !.face2 = i, !.px = loc[1],
                        !.py = loc[2], !.pz = loc[3], !.face_count = 2]
       ELSE [acc EXCEPT !.P2 = ray, !.face2 = i, !.face_count = 2]
  ELSE [acc EXCEPT !.face_count = @ + 1]

\* One pass of IntersectPrimitive's loop, given PlaneIntersect's result pi for
\* face i and the local coordinates loc of its point.
FaceTested(pr, i, acc, pi, loc) ==
  IF pi.ret /\ CheckBounds(pr, i, loc[1], loc[2], loc[3])
  THEN FaceStruck([acc EXCEPT !.divzero = @ \/ pi.divzero], i, pi.P, loc)
  ELSE [acc EXCEPT !.divzero = @ \/ pi.divzero]

FaceCrossed(pr, i, acc, pi) ==
  FaceTested(pr, i, acc, pi, GetLocalCoords(pr, pi.P))

\* One pass of IntersectPrimitive's loop over the faces, for face i.
IntersectFace(pr, gf, offset_, direction_, i, acc) ==
  FaceCrossed(pr, i, acc, PlaneIntersect(pr, gf, offset_, direction_, i))

RECURSIVE IntersectLoop(_, _, _, _, _, _)
IntersectLoop(pr, gf, offset_, direction_, i, acc) ==
  IF i = 6 THEN acc
  ELSE IntersectLoop(pr, gf, offset_, direction_, i + 1,
                     IntersectFace(pr, gf, offset_, direction_, i, acc))

\* IntersectPrimitive's return value, with what its loop left behind.
ReturnCount(acc) == acc @@ [ret |-> acc.face_count > 0]

\* Primitive::IntersectPrimitive, after its face coordinates are set.
IntersectPrimitive(pr, gf, offset_, direction_) ==
  ReturnCount(IntersectLoop(pr, gf, offset_, direction_, 0,
                [face_count |-> 0, P1 |-> Unassigned, P2 |-> Unassigned,
                 face1 |-> NoFace, face2 |-> NoFace, px |-> Unassigned,
                 py |-> Unassigned, pz |-> Unassigned, divzero |-> FALSE]))

\* A returned double known by its sign and its square: -1, or a distance.
MinusOne == [neg |-> TRUE, sq |-> R(1)]

Distance(sq) == [neg |-> FALSE, sq |-> sq]

\* GetApparentThickness's test of one face: PlaneIntersect returned true and
\* its point, in local coordinates loc, is within the face's bounds.
FaceInBounds(pr, face_, pi, loc) ==
  pi.ret /\ CheckBounds(pr, face_, loc[1], loc[2], loc[3])

FaceHit(pr, face_, pi) ==
  FaceInBounds(pr, face_, pi, GetLocalCoords(pr, pi.P))

\* GetApparentThickness without the test of the second face: the fault the
\* named-faces property must detect.
ThicknessFirstOnly(a, hitA, b, hitB) ==
  IF ~hitA
  THEN [ret |-> MinusOne, intersect1 |-> a.P, intersect2 |-> Unassigned,
        divzero |-> a.divzero]
  ELSE [ret |-> Distance(DistSq(a.P, b.P)), intersect1 |-> a.P,
        intersect2 |-> b.P, divzero |-> a.divzero \/ b.divzero]

\* GetApparentThickness's result from the two PlaneIntersect results a and b,
\* the second of which is computed only when the first face was hit.
ThicknessBetween(a, hitA, b, hitB) ==
  IF ~hitA
  THEN [ret |-> MinusOne, intersect1 |-> a.P, intersect2 |-> Unassigned,
        divzero |-> a.divzero]
  ELSE IF ~hitB
  THEN [ret |-> MinusOne, intersect1 |-> a.P, intersect2 |-> b.P,
        divzero |-> a.divzero \/ b.divzero]
  ELSE [ret |-> Distance(DistSq(a.P, b.P)), intersect1 |-> a.P,
        intersect2 |-> b.P, divzero |-> a.divzero \/ b.divzero]

ThicknessThrough(pr, f1_, f2_, a, b) ==
  ThicknessBetween(a, FaceHit(pr, f1_, a), b, FaceHit(pr, f2_, b))

\* Primitive::GetApparentThickness for valid face numbers, after its face
\* coordinates are set.
ApparentThickness(pr, gf, offset_, direction_, f1_, f2_) ==
  ThicknessThrough(pr, f1_, f2_,
                   PlaneIntersect(pr, gf, offset_, direction_, f1_),
                   PlaneIntersect(pr, gf, offset_, direction_, f2_))

\* Sphere2Cart(r, theta, phi, Vector3&): spherical to cartesian coordinates.
\* An angle is known by its sine and cosine, [s |-> sin, c |-> cos].
Sphere2Cart(r, theta_, phi_) ==
  << RMul(r, RMul(theta_.s, phi_.c)),
     RMul(r, RMul(theta_.s, phi_.s)),
     RMul(r, theta_.c) >>

\* The three axes Primitive::SetRotation computes, before it normalizes them.
RotationAxes(theta_, phi_, psi_) ==
  LET sin_theta == theta_.s   cos_theta == theta_.c
      sin_phi == phi_.s       cos_phi == phi_.c
      sin_psi == psi_.s       cos_psi == psi_.c
  IN  [X |-> << RMul(cos_theta, cos_phi), RMul(cos_theta, sin_phi),
                RNeg(sin_theta) >>,
       Y |-> << RSub(RMul(RMul(sin_psi, sin_theta), cos_phi),
                     RMul(cos_psi, sin_phi)),
                RAdd(RMul(RMul(sin_psi, sin_theta), sin_phi),
                     RMul(cos_psi, cos_phi)),
                RMul(cos_theta, sin_psi) >>,
       Z |-> << RAdd(RMul(RMul(cos_psi, sin_theta), cos_phi),
                     RMul(sin_psi, sin_phi)),
                RSub(RMul(RMul(cos_psi, sin_theta), sin_phi),
                     RMul(sin_psi, cos_phi)),
                RMul(cos_theta, cos_psi) >>]

\* SetSize hands the three standard VANDLE bar sizes (in metres) to
\* SetSmall, SetMedium and SetLarge.
IsStandardSize(length_, width_, depth_) ==
  \/ length_ = <<3, 5>> /\ width_ = <<3, 100>> /\ depth_ = <<3, 100>>
  \/ length_ = <<6, 5>> /\ width_ = <<1, 20>> /\ depth_ = <<3, 100>>
  \/ length_ = R(2) /\ width_ = <<1, 20>> /\ depth_ = <<1, 20>>

(***************************************************************************)
(* Primitive: construction and operations                                  *)
(***************************************************************************)
(***************************************************************************)
(* AngularDist.  Angles in radians are carried in units of the constant    *)
(* pi (vandmc_core.cpp line 23), so that a table angle of a degrees,       *)
(* a*deg2rad with deg2rad = pi/180, is the rational a/180.  The cumulative *)
(* integral of a table and its total then carry the unit pi*pi: one pi     *)
(* from the angle difference, one from the factor 2*pi.                    *)
(***************************************************************************)
NULL == <<>>

NoTarget == [null |-> TRUE]

\* A double together with the power of pi it is multiplied by.
Rad(q) == [pi |-> 1, q |-> q]

\* The double -1, which no multiple of pi equals.
SampleFailed == [pi |-> 0, q |-> R(-1)]

\* angle*deg2rad
Deg2Rad(a) == RDiv(a, R(180))

\* The constant pi = 3.1415926540 exceeds the circle constant, by 4.1e-10.
\* The excess is carried as a small positive number, and std::sin and
\* std::cos of x*pi to first order in it: the sine is the sine of x half
\* turns plus x*PiExcess times the cosine, the cosine the cosine less
\* x*PiExcess times the sine.
PiExcess == <<1, 1000>>

\* std::sin(pi): a negative number of small magnitude.
SinOfPi == RNeg(PiExcess)

\* The sine and cosine of an eighth of a turn, to one digit.
SinOfEighth == <<7, 10>>

\* 1 + k*x*PiExcess
Excess(x, k) == RAdd(R(1), RMul(R(k), RMul(x, PiExcess)))

\* std::sin at the angles the tables and the polygons use.
StdSin(x) ==
  CASE ~IsFinite(x) -> NaN
    [] x = R(0) -> R(0)
    [] x = <<1, 2>> -> R(1)
    [] x = R(1) -> SinOfPi
    [] x = <<-1, 4>> -> RNeg(RMul(SinOfEighth, Excess(<<1, 4>>, 1)))
    [] x = <<1, 4>> -> RMul(SinOfEighth, Excess(x, 1))
    [] x = <<3, 4>> -> RMul(SinOfEighth, Excess(x, -1))
    [] x = <<5, 4>> -> RNeg(RMul(SinOfEighth, Excess(x, 1)))
    [] x = <<7, 4>> -> RNeg(RMul(SinOfEighth, Excess(x, -1)))

\* std::cos at the angles the polygons use.
StdCos(x) ==
  CASE ~IsFinite(x) -> NaN
    [] x = <<-1, 4>> -> RMul(SinOfEighth, Excess(<<1, 4>>, -1))
    [] x = <<1, 4>> -> RMul(SinOfEighth, Excess(x, -1))
    [] x = <<3, 4>> -> RNeg(RMul(SinOfEighth, Excess(x, 1)))
    [] x = <<5, 4>> -> RNeg(RMul(SinOfEighth, Excess(x, -1)))
    [] x = <<7, 4>> -> RMul(SinOfEighth, Excess(x, 1))

\* 0.5*(x2-x1)*(y2+y1)*2*pi for y = dsigma*sin(x)
Trapezoid(x1, d1, x2, d2) ==
  RMul(RMul(RHalf(RSub(x2, x1)),
            RAdd(RMul(d2, StdSin(x2)), RMul(d1, StdSin(x1)))),
       R(2))

\* The loop over i < num_points-1 that fills integral[i+1], given the part
\* of integral filled so far.
RECURSIVE Integrate(_, _, _)
Integrate(theta, dsigma, filled) ==
  IF Len(filled) >= Len(theta) THEN filled
  ELSE Integrate(theta, dsigma,
                 Append(filled,
                        RAdd(filled[Len(filled)],
                             Trapezoid(theta[Len(filled)],
                                       dsigma[Len(filled)],
                                       theta[Len(filled) + 1],
                                       dsigma[Len(filled) + 1]))))

\* rate: 0.0 without a target, else the cross-section times factor (given
\* by its decimal exponent) times beam intensity times number density.
Rate(xsection, exponent, beam_intensity, targ_) ==
  IF targ_.null THEN [m |-> R(0), e |-> 0]
  ELSE [m |-> RMul(RMul(xsection, beam_intensity), targ_.density),
        e |-> exponent]

\* The arrays and totals both tabulated overloads compute from the angles
\* (already in radians) and cross-sections they stored.
Tabulated(theta, dsigma, filled, exponent, beam_intensity, targ_) ==
  [num_points |-> Len(theta), com_theta |-> theta, dsigma_domega |-> dsigma,
   integral |-> filled, reaction_xsection |-> filled[Len(filled)],
   rate |-> Rate(filled[Len(filled)], exponent, beam_intensity, targ_)]

Tabulate(theta, dsigma, exponent, beam_intensity, targ_) ==
  Tabulated(theta, dsigma, Integrate(theta, dsigma, <<R(0)>>), exponent,
            beam_intensity, targ_)

\* The interpolation without the subtraction of integral[i].
SampleInBinFromZero(x1, x2, i1, i2, rand_xsect) ==
  RAdd(x1, RDiv(RMul(rand_xsect, RSub(x2, x1)), RSub(i2, i1)))

\* com_theta[i] + (rand_xsect-integral[i])*(com_theta[i+1]-com_theta[i])
\*               /(integral[i+1]-integral[i])
SampleInBin(x1, x2, i1, i2, rand_xsect) ==
  RAdd(x1, RDiv(RMul(RSub(rand_xsect, i1), RSub(x2, x1)), RSub(i2, i1)))

\* The loop of Sample from bin i on: the first bin that holds rand_xsect.
RECURSIVE SampleLoop(_, _, _, _, _)
SampleLoop(n, theta, filled, rand_xsect, i) ==
  IF i >= n - 1 THEN SampleFailed
  ELSE IF RLe(filled[i + 1], rand_xsect) /\ RLe(rand_xsect, filled[i + 2])
       THEN Rad(SampleInBin(theta[i + 1], theta[i + 2], filled[i + 1],
                            filled[i + 2], rand_xsect))
       ELSE SampleLoop(n, theta, filled, rand_xsect, i + 1)

\* What Sample returns on an initialized object when frand() returns r.
SampleDrawn(n, theta, filled, xsection, r) ==
  IF n > 0 THEN SampleLoop(n, theta, filled, RMul(r, xsection), 0)
  ELSE Rad(r)

(***************************************************************************)
(* RangeTable.  Its method bodies are not part of the sources at hand: the *)
(* operations follow the declarations and comments of materials.h and the  *)
(* description of the range table.                                         *)
(***************************************************************************)
\* The value at v of the line through (x1, y1) and (x2, y2).
TableLine(x1, y1, x2, y2, v) ==
  RAdd(y1, RDiv(RMul(RSub(v, x1), RSub(y2, y1)), RSub(x2, x1)))

\* The scan for the entries that bracket v, from entry i on, and the linear
\* interpolation between them; Unassigned if no two entries bracket v.
RECURSIVE Bracketed(_, _, _, _)
Bracketed(xs, ys, v, i) ==
  IF i >= Len(xs) THEN Unassigned
  ELSE IF RLe(xs[i], v) /\ RLe(v, xs[i + 1])
       THEN TableLine(xs[i], ys[i], xs[i + 1], ys[i + 1], v)
       ELSE Bracketed(xs, ys, v, i + 1)

\* A query outside the table may fail with this sentinel.
OutOfTable == R(-1)

\* The extrapolation of the boundary segment nearest to v.
Extrapolated(xs, ys, v) ==
  IF Len(xs) < 2 THEN OutOfTable
  ELSE IF RLt(v, xs[1]) THEN TableLine(xs[1], ys[1], xs[2], ys[2], v)
       ELSE TableLine(xs[Len(xs) - 1], ys[Len(xs) - 1], xs[Len(xs)],
                        ys[Len(xs)], v)

\* What a lookup may return: the interpolation between the bracketing
\* entries; outside the table the sentinel or the extrapolation.
Lookup(xs, ys, v, found) ==
  IF found = Unassigned THEN {OutOfTable, Extrapolated(xs, ys, v)}
  ELSE {found}

\* double RangeTable::GetRange(double energy_)
GetRange(energy_) ==
  Lookup(energy, range, energy_, Bracketed(energy, range, energy_, 1))

\* double RangeTable::GetEnergy(double range_)
GetEnergy(range_) ==
  Lookup(range, energy, range_, Bracketed(range, energy, range_, 1))

\* Material::Range: the distance a particle of the given energy travels, the
\* integral of 1/StopPower from 0 to the energy, for a stopping power that
\* falls as 1/energy.
MaterialRange(mat_, energy_) ==
  RMul(mat_.k, RHalf(RMul(energy_, energy_)))

\* The arrays Init(n, startE, stopE, ...) fills: n energies spaced linearly
\* from startE to stopE and the material's range at each.
FilledEnergy(n, startE_, step) ==
  [i \in 1..n |-> RAdd(startE_, RMul(R(i - 1), step))]

FilledRange(n, filled, mat_) ==
  [i \in 1..n |-> MaterialRange(mat_, filled[i])]

(***************************************************************************)
(* Lines, rays and polygons in the plane                                   *)
(***************************************************************************)
\* The parameters GetT1T2 writes.
T1T2(t1_, t2_) == [t1 |-> t1_, t2 |-> t2_]

\* General case: t2, then t1 = (V1.x + d2.x*t2)/d1.x
GeneralT2(d1_, d2_, V1) ==
  RMul(RSub(RMul(RDiv(d1_[1], d1_[2]), V1[2]), V1[1]),
       RDiv(R(1),
            RMul(d2_[1],
                 RSub(R(1),
                      RDiv(RMul(d1_[1], d2_[2]), RMul(d1_[2], d2_[1]))))))

GeneralT1(d1_, d2_, V1, t2_) ==
  T1T2(RDiv(RAdd(V1[1], RMul(d2_[1], t2_)), d1_[1]), t2_)

\* Line 1 is vertical: t1 = (p2.y - p1.y + d2.y*t2)/d1.y
Vertical1(p1_, d1_, p2_, d2_, t2_) ==
  T1T2(RDiv(RAdd(RSub(p2_[2], p1_[2]), RMul(d2_[2], t2_)), d1_[2]), t2_)

\* Line 1 is horizontal: t1 = (p2.y - p1.y + d2.x*t2)/d1.x
Horizontal1(p1_, d1_, p2_, d2_, t2_) ==
  T1T2(RDiv(RAdd(RSub(p2_[2], p1_[2]), RMul(d2_[1], t2_)), d1_[1]), t2_)

\* Line 2 is vertical: t2 = (p1.y - p2.y + d1.y*t1)/d2.y
Vertical2(p1_, d1_, p2_, d2_, t1_) ==
  T1T2(t1_, RDiv(RAdd(RSub(p1_[2], p2_[2]), RMul(d1_[2], t1_)), d2_[2]))

\* Line 2 is horizontal: t2 = (p1.x - p2.x + d1.x*t1)/d2.x
Horizontal2(p1_, d1_, p2_, d2_, t1_) ==
  T1T2(t1_, RDiv(RAdd(RSub(p1_[1], p2_[1]), RMul(d1_[1], t1_)), d2_[1]))

\* bool GetT1T2(p1_, d1_, p2_, d2_, t1, t2), which returns true: the values
\* it leaves in t1 and t2, which it does not write if no case applies.
GetT1T2(p1_, d1_, p2_, d2_) ==
  IF ~IsZero(d1_[1]) /\ ~IsZero(d1_[2]) /\ ~IsZero(d2_[1])
       /\ ~IsZero(d2_[2])
  THEN GeneralT1(d1_, d2_, VSub(p2_, p1_),
                 GeneralT2(d1_, d2_, VSub(p2_, p1_)))
  ELSE IF IsZero(d1_[1])
  THEN Vertical1(p1_, d1_, p2_, d2_, RDiv(RSub(p1_[1], p2_[1]), d2_[1]))
  ELSE IF IsZero(d1_[2])
  THEN Horizontal1(p1_, d1_, p2_, d2_, RDiv(RSub(p1_[2], p2_[2]), d2_[2]))
  ELSE IF IsZero(d2_[1])
  THEN Vertical2(p1_, d1_, p2_, d2_, RDiv(RSub(p2_[1], p2_[1]), d1_[1]))
  ELSE IF IsZero(d2_[2])
  THEN Horizontal2(p1_, d1_, p2_, d2_, RDiv(RSub(p2_[2], p2_[2]), d1_[2]))
  ELSE T1T2(Unassigned, Unassigned)

\* (t1 >= 0.0 && t1 <= 1.0) && t2 >= 0.0
OnSegmentAhead(t) ==
  /\ RGe(t.t1, R(0))
  /\ RLe(t.t1, R(1))
  /\ RGe(t.t2, R(0))

\* bool Line::Intersect(const Ray &ray_, Vector3 &p)
LineIntersectRay(line, pos, dir) ==
  OnSegmentAhead(GetT1T2(line.p1, line.dir, pos, dir))

\* Vector3(radius*std::cos(theta), radius*std::sin(theta))
Vertex(radius_, theta) ==
  <<RMul(radius_, StdCos(theta)), RMul(radius_, StdSin(theta)), R(0)>>

\* A side from p1 to p2.
Side(p1_, p2_) == [p1 |-> p1_, p2 |-> p2_, dir |-> VSub(p2_, p1_)]

\* The sides RegularPolygon::Initialize builds, theta running from
\* -sector/2 in steps of sector.
Sides(n, sector_, radius_) ==
  [side \in 1..n |->
     Side(Vertex(radius_,
                 RAdd(RNeg(RHalf(sector_)), RMul(R(side - 1), sector_))),
          Vertex(radius_,
                 RAdd(RNeg(RHalf(sector_)), RMul(R(side), sector_))))]

\* The members Initialize computes from the sector and the radius.
Polygonal(n, sector_, radius_) ==
  [nSides |-> n, sector |-> sector_, radius |-> radius_,
   chord_length |-> RMul(RMul(R(2), radius_), StdSin(RHalf(sector_))),
   lines |-> Sides(n, sector_, radius_), init |-> TRUE]

\* radius = radius_/std::cos(sector/2.0)
Circumscribed(n, sector_, radius_) ==
  Polygonal(n, sector_, RDiv(radius_, StdCos(RHalf(sector_))))

\* The number of sides the ray from (x_, y_) along the x-axis intersects.
RECURSIVE Intersects(_, _, _, _)
Intersects(sides, x_, y_, side) ==
  IF side > Len(sides) THEN 0
  ELSE (IF LineIntersectRay(sides[side], <<x_, y_, R(0)>>,
                            <<R(1), R(0), R(0)>>) THEN 1 ELSE 0)
       + Intersects(sides, x_, y_, side + 1)

\* bool RegularPolygon::IsInside(const double &x_, const double &y_)
IsInside(pg, x_, y_) == Intersects(pg.lines, x_, y_, 1) % 2 # 0

(***************************************************************************)
(* vikar: the event loop of main.  One event is one pass of the loop.  The *)
(* values the physics delivers (interaction depth, beam range, whether the *)
(* kinematics found a reaction, the directions of ejectile and recoil, the *)
(* random numbers of the efficiency test and of the energy deposit) are    *)
(* inputs of the event.                                                    *)
(***************************************************************************)
\* EjectObject::Append and RecoilObject::Append: one more record is held.
RecordAppend(mult) == mult + 1

\* EjectObject::Zero and RecoilObject::Zero: no record is held.
RecordZero == 0

\* A Vector3 passed by reference to IntersectPrimitive keeps its value where
\* the call did not write it.
Written(before, out) == IF out = Unassigned THEN before ELSE out

\* The efficiency test of a geometric hit: on a detector that is not
\* perfect, a small, medium or large bar loses the hit when frand() exceeds
\* the efficiency.
TrueHit(b, perfect, lost) == ~(~perfect /\ b.sized /\ lost)

\* The output of a detected hit: the record is appended if the energy
\* deposit lies in the window 0.1 <= QDC <= 5.0.
Recorded(acc, b, window) ==
  IF ~window THEN acc
  ELSE IF ~b.recoil
  THEN [acc EXCEPT !.eject_mult = RecordAppend(@),
                   !.ejects = @ + 1]
  ELSE [acc EXCEPT !.recoil_mult = RecordAppend(@),
                   !.recoils = @ + 1]

\* A hit that passed the efficiency test: fpath1, fpath2 and the path through
\* the detector are computed from HitDetect1 and HitDetect2 as they are now.
HitProcessed(acc, bar, b, r, window) ==
  Recorded([acc EXCEPT !.reads =
                         Append(@, [bar |-> bar,
                                    HitDetect1 |-> acc.HitDetect1,
                                    HitDetect2 |-> acc.HitDetect2,
                                    face_count |-> r.face_count])],
           b, window)

\* What IntersectPrimitive leaves in the variables of the loop.
BarIntersected(acc, b, r) ==
  [acc EXCEPT !.HitDetect1 = Written(@, r.P1),
              !.HitDetect2 = Written(@, r.P2),
              !.NbarHit = IF r.ret /\ ~b.recoil THEN @ + 1 ELSE @]

\* One pass of the loop over the detectors, for detector bar struck as r says.
BarDone(acc, bar, b, r, perfect, draw) ==
  IF r.ret /\ TrueHit(b, perfect, draw.lost)
  THEN HitProcessed(BarIntersected(acc, b, r), bar, b, r, draw.window)
  ELSE BarIntersected(acc, b, r)

\* The loop over the detectors, from detector bar on.
RECURSIVE ProcessBars(_, _, _, _, _, _)
ProcessBars(bars, struck, perfect, draws, bar, acc) ==
  IF bar >= Len(bars) THEN acc
  ELSE ProcessBars(bars, struck, perfect, draws, bar + 1,
                   BarDone(acc, bar, bars[bar + 1], struck[bar + 1], perfect,
                           draws[bar + 1]))

\* vandle_bars[bar].IntersectPrimitive(lab_beam_interaction, Ejectile, ...)
\* for an ejectile detector, with Recoil for a recoil detector.
BarStruck(b, lab_beam_interaction, Ejectile, Recoil) ==
  IntersectPrimitive(b, FaceCoords(b), lab_beam_interaction,
                     IF b.recoil THEN Recoil ELSE Ejectile)

\* The test that decides whether the event is detected.
Coincident(coincidence, ejects_, recoils_) ==
  IF coincidence THEN ejects_ > 0 /\ recoils_ > 0
  ELSE ejects_ > 0 \/ recoils_ > 0

(***************************************************************************)
(* Interpolate and comConverter                                            *)
(***************************************************************************)
\* ((y_[i]-y_[i-1])/(x_[i]-x_[i-1]))*(x-x_[i-1])+y_[i-1]
Chord(x1, y1, x2, y2, x) ==
  RAdd(RMul(RDiv(RSub(y2, y1), RSub(x2, x1)), RSub(x, x1)), y1)

\* The loop of Interpolate with the test x <= x_[i] in place of x < x_[i].
RECURSIVE InterpolateFromInclusive(_, _, _, _, _)
InterpolateFromInclusive(x, x_, y_, len_, i) ==
  IF i >= len_ THEN [ret |-> FALSE, y |-> Unassigned]
  ELSE IF RGe(x, x_[i]) /\ RLe(x, x_[i + 1])
       THEN [ret |-> TRUE,
             y |-> Chord(x_[i], y_[i], x_[i + 1], y_[i + 1], x)]
       ELSE InterpolateFromInclusive(x, x_, y_, len_, i + 1)

\* The loop of Interpolate from index i on: the first pair of adjacent points
\* with x_[i-1] <= x < x_[i] gives y; without one y is not written.
RECURSIVE InterpolateFrom(_, _, _, _, _)
InterpolateFrom(x, x_, y_, len_, i) ==
  IF i >= len_ THEN [ret |-> FALSE, y |-> Unassigned]
  ELSE IF RGe(x, x_[i]) /\ RLt(x, x_[i + 1])
       THEN [ret |-> TRUE,
             y |-> Chord(x_[i], y_[i], x_[i + 1], y_[i + 1], x)]
       ELSE InterpolateFrom(x, x_, y_, len_, i + 1)

\* bool Interpolate(const double &x, double &y, double *x_, double *y_,
\*                  const size_t &len_)
Interpolate(x, x_, y_, len_) == InterpolateFrom(x, x_, y_, len_, 1)

\* The value comConverter returns when the table does not hold the angle.
NoConversion == R(-9999)

(***************************************************************************)
(* DataPack                                                                *)
(***************************************************************************)
\* The file names at which a TFile can be created.
Writable == {"mcarlo.root", "other.root"}

\* The members file and tree hold pointers: null, indeterminate (never
\* assigned), or pointing to an object.  A TFile pointed to is open, closed
\* or deleted; a TTree pointed to was created in the directory dir and is
\* written or not.
NoFile == [state |-> "null", name |-> ""]
NoTree == [state |-> "null", dir |-> "", rxn |-> FALSE]
SomeFile == [state |-> "indeterminate", name |-> ""]
SomeTree == [state |-> "indeterminate", dir |-> "", rxn |-> FALSE]

\* DataPack(){ file = NULL; tree = NULL; init = false; }
DataPack == [file |-> NoFile, tree |-> NoTree, init |-> FALSE]

\* The members before the body of DataPack(fname_, Nbins_, write_rxn_)
\* runs: none has an initializer, and init holds either value.
DataPackRaw(init_) == [file |-> SomeFile, tree |-> SomeTree, init |-> init_]

\* new TFile(fname_.c_str(), "RECREATE"): the file is created empty and is
\* open if it can be written; if(!file->IsOpen()){ init = false; delete
\* file; } leaves file pointing to the deleted object.
Recreated(fname_) ==
  IF fname_ \in Writable THEN [state |-> "open", name |-> fname_]
  ELSE [state |-> "deleted", name |-> fname_]

\* new TTree("data", ...): the tree belongs to the file just opened, if one
\* was, and has the branches write_rxn_ asks for.
Planted(fname_, write_rxn_) ==
  [state |-> "created",
   dir |-> IF fname_ \in Writable THEN fname_ ELSE "",
   rxn |-> write_rxn_]

\* bool DataPack::Open(std::string fname_, bool write_rxn_) on the pack p
\* with the files d.
OpenPack(p, d, fname_, write_rxn_) ==
  IF p.init THEN [pack |-> p, disk |-> d, ret |-> FALSE]
  ELSE [pack |-> [file |-> Recreated(fname_),
                  tree |-> Planted(fname_, write_rxn_),
                  init |-> TRUE],
        disk |-> IF fname_ \in Writable THEN [d EXCEPT ![fname_] = "empty"]
                 ELSE d,
        ret |-> TRUE]

\* What file->cd(); tree->Write(); file->Close(); of Close can do: with file
\* pointing to an open TFile the tree is written and the file closed; with
\* file pointing to a deleted object or nowhere the calls are undefined, and
\* the program traps or goes on with nothing written.
Closing(p) ==
  IF p.file.state = "open" THEN {"written"} ELSE {"trap", "nothing"}

\* AngularDist::AngularDist(), RangeTable::RangeTable(),
\* RegularPolygon::RegularPolygon(), DataPack::DataPack() and the
\* declarations of main of vikar, with no random number drawn yet.
ElsewhereConstructed ==
  /\ init = FALSE
  /\ num_points = 0
  /\ com_theta = NULL
  /\ dsigma_domega = NULL
  /\ integral = NULL
  /\ reaction_xsection = R(0)
  /\ rate = Unassigned
  /\ drawn = 0
  /\ use_table = FALSE
  /\ num_entries = Unassigned
  /\ energy = Unassigned
  /\ range = Unassigned
  /\ dist_traveled = Unassigned
  /\ polygon = [nSides |-> 0, sector |-> R(0), radius |-> R(0),
                chord_length |-> R(0), lines |-> NULL, init |-> FALSE]
  /\ t1 = Unassigned
  /\ t2 = Unassigned
  /\ Nwanted = 0
  /\ InCoincidence = TRUE
  /\ PerfectDet = TRUE
  /\ vandle_bars = <<>>
  /\ Ndetected = 0
  /\ Nsimulated = 0
  /\ NbarHit = 0
  /\ Nreactions = 0
  /\ beam_stopped = 0
  /\ chunk = Unassigned
  /\ flag = FALSE
  /\ HitDetect1 = Unassigned
  /\ HitDetect2 = Unassigned
  /\ eject_mult = 0
  /\ recoil_mult = 0
  /\ entries = 0
  /\ report = <<>>
  /\ pc = "setup"
  /\ pack = DataPack
  /\ disk = [f \in Writable |-> "absent"]
  /\ y_out = Unassigned

\* The out-parameters of the queries this call is not.
NoPlaneOut == P' = Unassigned

NoPrimitiveOut ==
  /\ P1' = Unassigned
  /\ P2' = Unassigned
  /\ face1' = NoFace
  /\ face2' = NoFace
  /\ px' = Unassigned
  /\ py' = Unassigned
  /\ pz' = Unassigned
  /\ face_count' = 0

NoThicknessOut ==
  /\ intersect1' = Unassigned
  /\ intersect2' = Unassigned

\* A call that returns nothing and writes no out-parameter.
NoOutput ==
  /\ ret' = NoReturn
  /\ divzero' = FALSE
  /\ NoPlaneOut
  /\ NoPrimitiveOut
  /\ NoThicknessOut

\* No query has been called yet.
NothingCalled ==
  /\ ret = NoReturn
  /\ divzero = FALSE
  /\ P = Unassigned
  /\ P1 = Unassigned
  /\ P2 = Unassigned
  /\ face1 = NoFace
  /\ face2 = NoFace
  /\ px = Unassigned
  /\ py = Unassigned
  /\ pz = Unassigned
  /\ face_count = 0
  /\ intersect1 = Unassigned
  /\ intersect2 = Unassigned

\* Primitive::Primitive()
Init ==
  /\ position = Vec(0, 0, 0)
  /\ detX = Vec(1, 0, 0)
  /\ detY = Vec(0, 1, 0)
  /\ detZ = Vec(0, 0, 1)
  /\ length = R(1)
  /\ width = R(1)
  /\ depth = R(1)
  /\ need_set = TRUE
  /\ GlobalFace = NotComputed
  /\ call = [op |-> "Primitive"]
  /\ NothingCalled
  /\ ElsewhereConstructed

\* Primitive::SetPosition
SetPosition(pos) ==
  /\ position' = pos
  /\ need_set' = TRUE
  /\ UNCHANGED elsewhere
  /\ call' = [op |-> "SetPosition"]
  /\ NoOutput
  /\ UNCHANGED <<detX, detY, detZ, length, width, depth, GlobalFace>>

\* Primitive::SetPolarPosition
SetPolarPosition(r, theta_, phi_) ==
  /\ position' = Sphere2Cart(r, theta_, phi_)
  /\ need_set' = TRUE
  /\ UNCHANGED elsewhere
  /\ call' = [op |-> "SetPolarPosition"]
  /\ NoOutput
  /\ UNCHANGED <<detX, detY, detZ, length, width, depth, GlobalFace>>

\* Primitive::SetRotation
SetRotation(theta_, phi_, psi_) ==
  \E axes \in {RotationAxes(theta_, phi_, psi_)} :
    /\ detX' = Normalize(axes.X)
    /\ detY' = Normalize(axes.Y)
    /\ detZ' = Normalize(axes.Z)
    /\ need_set' = TRUE
    /\ UNCHANGED elsewhere
    /\ call' = [op |-> "SetRotation"]
    /\ NoOutput
    /\ UNCHANGED <<position, length, width, depth, GlobalFace>>

\* Primitive::SetUnitVectors
SetUnitVectors(unitX, unitY, unitZ) ==
  /\ detX' = Normalize(unitX)
  /\ detY' = Normalize(unitY)
  /\ detZ' = Normalize(unitZ)
  /\ need_set' = TRUE
  /\ UNCHANGED elsewhere
  /\ call' = [op |-> "SetUnitVectors", unitX |-> unitX, unitY |-> unitY,
              unitZ |-> unitZ]
  /\ NoOutput
  /\ UNCHANGED <<position, length, width, depth, GlobalFace>>

\* Primitive::SetSize with a size that is not a standard bar's.
SetSize(length_, width_, depth_) ==
  /\ ~IsStandardSize(length_, width_, depth_)
  /\ width' = width_
  /\ length' = length_
  /\ depth' = depth_
  /\ need_set' = TRUE
  /\ UNCHANGED elsewhere
  /\ call' = [op |-> "SetSize"]
  /\ NoOutput
  /\ UNCHANGED <<position, detX, detY, detZ, GlobalFace>>

\* Primitive::Primitive(NewVIKARdet*) for a detector that is not a standard
\* VANDLE bar: SetPosition, SetRotation and SetSize on the default axes.
InitDet(pos, theta_, phi_, psi_, size) ==
  /\ ~IsStandardSize(size[1], size[2], size[3])
  /\ position = pos
  /\ detX = Normalize(RotationAxes(theta_, phi_, psi_).X)
  /\ detY = Normalize(RotationAxes(theta_, phi_, psi_).Y)
  /\ detZ = Normalize(RotationAxes(theta_, phi_, psi_).Z)
  /\ length = size[1]
  /\ width = size[2]
  /\ depth = size[3]
  /\ need_set = TRUE
  /\ GlobalFace = NotComputed
  /\ call = [op |-> "Primitive"]
  /\ NothingCalled
  /\ ElsewhereConstructed

\* Whether a query finds face centres cached for an earlier geometry.
Stale == need_set /\ GlobalFace # NotComputed /\ GlobalFace # FaceCoords(Prim)

\* bool Primitive::PlaneIntersect(offset_, direction_, face_, P)
PlaneIntersectCall(offset_, direction_, face_) ==
  \E gf \in {FreshFaces(Prim, need_set, GlobalFace)} :
  \E r \in {PlaneIntersect(Prim, gf, offset_, direction_, face_)} :
    /\ GlobalFace' = gf
    /\ need_set' = FALSE
    /\ UNCHANGED elsewhere
    /\ call' = [op |-> "PlaneIntersect", offset |-> offset_,
                direction |-> direction_, face |-> face_, stale |-> Stale]
    /\ ret' = r.ret
    /\ P' = r.P
    /\ divzero' = r.divzero
    /\ NoPrimitiveOut
    /\ NoThicknessOut
    /\ UNCHANGED geom

\* bool Primitive::IntersectPrimitive(offset_, direction_, P1, P2, norm,
\*                                    face1, face2, px, py, pz)
IntersectPrimitiveCall(offset_, direction_) ==
  \E gf \in {FreshFaces(Prim, need_set, GlobalFace)} :
  \E r \in {IntersectPrimitive(Prim, gf, offset_, direction_)} :
    /\ GlobalFace' = gf
    /\ need_set' = FALSE
    /\ UNCHANGED elsewhere
    /\ call' = [op |-> "IntersectPrimitive", offset |-> offset_,
                direction |-> direction_, stale |-> Stale]
    /\ ret' = r.ret
    /\ P1' = r.P1
    /\ P2' = r.P2
    /\ face1' = r.face1
    /\ face2' = r.face2
    /\ px' = r.px
    /\ py' = r.py
    /\ pz' = r.pz
    /\ face_count' = r.face_count
    /\ divzero' = r.divzero
    /\ NoPlaneOut
    /\ NoThicknessOut
    /\ UNCHANGED geom

\* double Primitive::GetApparentThickness(offset_, direction_, f1_, f2_,
\*                                        intersect1, intersect2)
GetApparentThicknessCall(offset_, direction_, f1_, f2_) ==
  /\ UNCHANGED elsewhere
  /\ call' = [op |-> "GetApparentThickness", offset |-> offset_,
              direction |-> direction_, f1 |-> f1_, f2 |-> f2_,
              stale |-> Stale]
  /\ NoPlaneOut
  /\ NoPrimitiveOut
  /\ UNCHANGED geom
  /\ IF f1_ > 5 \/ f2_ > 5
     THEN /\ ret' = MinusOne
          /\ divzero' = FALSE
          /\ NoThicknessOut
          /\ UNCHANGED <<need_set, GlobalFace>>
     ELSE \E gf \in {FreshFaces(Prim, need_set, GlobalFace)} :
          \E r \in {ApparentThickness(Prim, gf, offset_, direction_,
                                      f1_, f2_)} :
            /\ GlobalFace' = gf
            /\ need_set' = FALSE
            /\ ret' = r.ret
            /\ intersect1' = r.intersect1
            /\ intersect2' = r.intersect2
            /\ divzero' = r.divzero

\* std::string Primitive::DumpVertex(): the six face centres and the centre.
DumpVertex ==
  \E gf \in {FreshFaces(Prim, need_set, GlobalFace)} :
    /\ GlobalFace' = gf
    /\ need_set' = FALSE
    /\ UNCHANGED elsewhere
    /\ call' = [op |-> "DumpVertex", stale |-> Stale]
    /\ ret' = <<gf, position>>
    /\ divzero' = FALSE
    /\ NoPlaneOut
    /\ NoPrimitiveOut
    /\ NoThicknessOut
    /\ UNCHANGED geom

\* bool Primitive::CheckBounds(face_, x_, y_, z_)
CheckBoundsCall(face_, x_, y_, z_) ==
  /\ UNCHANGED elsewhere
  /\ call' = [op |-> "CheckBounds", face |-> face_, x |-> x_, y |-> y_,
              z |-> z_]
  /\ ret' = CheckBounds(Prim, face_, x_, y_, z_)
  /\ divzero' = FALSE
  /\ NoPlaneOut
  /\ NoPrimitiveOut
  /\ NoThicknessOut
  /\ UNCHANGED <<geom, need_set, GlobalFace>>

\* What an allocation may leave in an entry never written: an angle in
\* radians and a cross-section.
Garbage == {<<R(0), R(0)>>, <<<<1, 2>>, R(2)>>}

\* Sample is followed for at most MaxDraws random draws.
MaxDraws == 2

(***************************************************************************)
(* AngularDist operations                                                  *)
(***************************************************************************)
\* The arrays Initialize(fname) fills: the points read, converted, in the
\* first entries; an entry past them holds what the allocation left there.
FileArrays(points, n, garbage) ==
  [theta |-> [i \in 1..n |-> IF i <= Len(points) THEN Deg2Rad(points[i][1])
                             ELSE garbage[1]],
   dsigma |-> [i \in 1..n |-> IF i <= Len(points) THEN points[i][2]
                              ELSE garbage[2]]]

\* The arrays Initialize(num_points_, angle_, xsection_) fills.
InputArrays(n, angle_, xsection_) ==
  [theta |-> [i \in 1..n |-> Deg2Rad(angle_[i])],
   dsigma |-> [i \in 1..n |-> xsection_[i]]]

\* A tabulated Initialize stores what it computed and returns true.
Store(t) ==
  /\ num_points' = t.num_points
  /\ com_theta' = t.com_theta
  /\ dsigma_domega' = t.dsigma_domega
  /\ integral' = t.integral
  /\ reaction_xsection' = t.reaction_xsection
  /\ rate' = t.rate
  /\ init' = TRUE
  /\ ret' = TRUE

\* bool AngularDist::Initialize(const char* fname, beam_intensity, targ_).
\* file is what fname names: whether it opens, and the points the reading
\* loop pushes before it meets the end of the file.
InitializeFile(file, beam_intensity, targ_) ==
  /\ UNCHANGED <<primitive, tools, drawn, table, dist_traveled, planar>>
  /\ call' = [op |-> "Initialize", from |-> "file",
              beam_intensity |-> beam_intensity, targ |-> targ_]
  /\ IF init \/ ~file.good
     THEN /\ ret' = FALSE
          /\ UNCHANGED dist
     ELSE IF num_points + Len(file.points) > 1
     THEN \E garbage \in Garbage :
          \E a \in {FileArrays(file.points, num_points + Len(file.points),
                               garbage)} :
          \E t \in {Tabulate(a.theta, a.dsigma, -27, beam_intensity,
                             targ_)} : Store(t)
     ELSE /\ num_points' = num_points + Len(file.points)
          /\ ret' = FALSE
          /\ UNCHANGED <<init, com_theta, dsigma_domega, integral,
                         reaction_xsection, rate>>

\* bool AngularDist::Initialize(num_points_, angle_, xsection_,
\*                              beam_intensity, targ_)
InitializeArrays(num_points_, angle_, xsection_, beam_intensity, targ_) ==
  /\ UNCHANGED <<primitive, tools, drawn, table, dist_traveled, planar>>
  /\ call' = [op |-> "Initialize", from |-> "arrays",
              beam_intensity |-> beam_intensity, targ |-> targ_]
  /\ IF init \/ num_points_ <= 1
     THEN /\ ret' = FALSE
          /\ UNCHANGED dist
     ELSE \E a \in {InputArrays(num_points_, angle_, xsection_)} :
          \E t \in {Tabulate(a.theta, a.dsigma, 0, beam_intensity, targ_)} :
            Store(t)

\* Initialize(const double&) without the test of init.
InitializeIsotropicAgain(xsection_) ==
  /\ UNCHANGED <<primitive, tools, drawn, table, dist_traveled, planar>>
  /\ call' = [op |-> "Initialize", from |-> "isotropic",
              xsection |-> xsection_]
  /\ IF RLe(xsection_, R(0))
     THEN /\ ret' = FALSE
          /\ UNCHANGED dist
     ELSE /\ reaction_xsection' = xsection_
          /\ rate' = [m |-> R(0), e |-> 0]
          /\ init' = TRUE
          /\ ret' = TRUE
          /\ UNCHANGED <<num_points, com_theta, dsigma_domega, integral>>

\* bool AngularDist::Initialize(const double &xsection_)
InitializeIsotropic(xsection_) ==
  /\ UNCHANGED <<primitive, tools, drawn, table, dist_traveled, planar>>
  /\ call' = [op |-> "Initialize", from |-> "isotropic",
              xsection |-> xsection_]
  /\ IF init \/ RLe(xsection_, R(0))
     THEN /\ ret' = FALSE
          /\ UNCHANGED dist
     ELSE /\ reaction_xsection' = xsection_
          /\ rate' = [m |-> R(0), e |-> 0]
          /\ init' = TRUE
          /\ ret' = TRUE
          /\ UNCHANGED <<num_points, com_theta, dsigma_domega, integral>>

\* Sample calling frand() before it tests init.
SampleDrawsFirst(r) ==
  /\ UNCHANGED <<primitive, tools, dist, table, dist_traveled, planar>>
  /\ drawn < MaxDraws
  /\ drawn' = drawn + 1
  /\ call' = [op |-> "Sample", drew |-> TRUE, frand |-> r]
  /\ ret' = IF ~init THEN SampleFailed
            ELSE SampleDrawn(num_points, com_theta, integral,
                             reaction_xsection, r)

\* double AngularDist::Sample(), where frand() returns r if it is called.
Sample(r) ==
  /\ UNCHANGED <<primitive, tools, dist, table, dist_traveled, planar>>
  /\ IF ~init
     THEN /\ call' = [op |-> "Sample", drew |-> FALSE]
          /\ ret' = SampleFailed
          /\ UNCHANGED drawn
     ELSE /\ drawn < MaxDraws
          /\ call' = [op |-> "Sample", drew |-> TRUE, frand |-> r]
          /\ ret' = SampleDrawn(num_points, com_theta, integral,
                                reaction_xsection, r)
          /\ drawn' = drawn + 1

(***************************************************************************)
(* RangeTable operations                                                   *)
(***************************************************************************)
\* bool RangeTable::Init(unsigned int): "Initialize arrays but do not fill
\* them".  unfilled is what the allocation leaves in every entry.
RangeTableInit(num_entries_, unfilled) ==
  /\ UNCHANGED <<primitive, tools, dist, drawn, dist_traveled, planar>>
  /\ call' = [op |-> "RangeTable::Init", filled |-> FALSE]
  /\ IF use_table
     THEN /\ ret' = FALSE
          /\ UNCHANGED table
     ELSE /\ num_entries' = num_entries_
          /\ energy' = [i \in 1..num_entries_ |-> unfilled]
          /\ range' = [i \in 1..num_entries_ |-> unfilled]
          /\ use_table' = TRUE
          /\ ret' = TRUE

\* bool RangeTable::Init(num_entries_, startE_, stopE_, Z_, mass_, mat_):
\* "Initialize arrays and fill them using Material".
RangeTableInitFill(num_entries_, startE_, stopE_, mat_) ==
  /\ UNCHANGED <<primitive, tools, dist, drawn, dist_traveled, planar>>
  /\ call' = [op |-> "RangeTable::Init", filled |-> TRUE]
  /\ IF use_table
     THEN /\ ret' = FALSE
          /\ UNCHANGED table
     ELSE \E filled \in {FilledEnergy(num_entries_, startE_,
                                      RDiv(RSub(stopE_, startE_),
                                           R(num_entries_ - 1)))} :
            /\ num_entries' = num_entries_
            /\ energy' = filled
            /\ range' = FilledRange(num_entries_, filled, mat_)
            /\ use_table' = TRUE
            /\ ret' = TRUE

\* bool RangeTable::Set(unsigned int, double, double): "Manually set a data
\* point with an energy and a range".
RangeTableSet(index, energy_, range_) ==
  /\ UNCHANGED <<primitive, tools, dist, drawn, dist_traveled, planar>>
  /\ call' = [op |-> "RangeTable::Set"]
  /\ IF ~use_table \/ index >= num_entries
     THEN /\ ret' = FALSE
          /\ UNCHANGED table
     ELSE /\ energy' = [energy EXCEPT ![index + 1] = energy_]
          /\ range' = [range EXCEPT ![index + 1] = range_]
          /\ ret' = TRUE
          /\ UNCHANGED <<use_table, num_entries>>

\* GetNewE reporting the requested distance for a stopped particle.
NewEKeepsDistance(range_, dist_) ==
  IF RLt(range_, dist_)
  THEN {[ret |-> R(0), dist_traveled |-> dist_]}
  ELSE {[ret |-> e, dist_traveled |-> dist_] :
          e \in GetEnergy(RSub(range_, dist_))}

\* What GetNewE returns and writes once GetRange has returned range_: a
\* particle whose range is less than dist_ has stopped.
NewE(range_, dist_) ==
  IF RLt(range_, dist_)
  THEN {[ret |-> R(0), dist_traveled |-> range_]}
  ELSE {[ret |-> e, dist_traveled |-> dist_] :
          e \in GetEnergy(RSub(range_, dist_))}

\* double RangeTable::GetNewE(double energy_, double dist_,
\*                            double &dist_traveled) on a table in use.
GetNewE(energy_, dist_) ==
  /\ use_table
  /\ UNCHANGED <<primitive, tools, dist, drawn, table, planar>>
  /\ \E range_ \in GetRange(energy_) :
     \E r \in NewE(range_, dist_) :
       /\ call' = [op |-> "GetNewE", energy |-> energy_, dist |-> dist_,
                   range |-> range_]
       /\ ret' = r.ret
       /\ dist_traveled' = r.dist_traveled

(***************************************************************************)
(* Plane geometry operations                                               *)
(***************************************************************************)
\* bool RegularPolygon::Initialize(const double &radius_,
\*                                 const unsigned int &nSides_)
PolygonInitialize(radius_, nSides_) ==
  /\ UNCHANGED <<primitive, tools, dist, drawn, table, dist_traveled, t1, t2>>
  /\ call' = [op |-> "RegularPolygon::Initialize", radius |-> radius_,
              nSides |-> nSides_]
  /\ IF polygon.init
     THEN /\ ret' = FALSE
          /\ UNCHANGED polygon
     ELSE /\ polygon' = Circumscribed(nSides_, RDiv(R(2), R(nSides_)),
                                      radius_)
          /\ ret' = TRUE

\* bool RegularPolygon::IsInside(const double &x_, const double &y_)
IsInsideCall(x_, y_) ==
  /\ UNCHANGED <<primitive, tools, dist, drawn, table, dist_traveled, planar>>
  /\ call' = [op |-> "IsInside", x |-> x_, y |-> y_]
  /\ ret' = IsInside(polygon, x_, y_)

\* bool GetT1T2(p1_, d1_, p2_, d2_, t1, t2)
GetT1T2Call(p1_, d1_, p2_, d2_) ==
  /\ UNCHANGED <<primitive, tools, dist, drawn, table, dist_traveled, polygon>>
  /\ call' = [op |-> "GetT1T2", p1 |-> p1_, d1 |-> d1_, p2 |-> p2_,
              d2 |-> d2_]
  /\ \E t \in {GetT1T2(p1_, d1_, p2_, d2_)} :
       /\ t1' = IF t.t1 = Unassigned THEN t1 ELSE t.t1
       /\ t2' = IF t.t2 = Unassigned THEN t2 ELSE t.t2
  /\ ret' = TRUE

(***************************************************************************)
(* vikar operations                                                        *)
(***************************************************************************)
\* At most MaxEvents beam particles are simulated.
MaxEvents == 3

\* The state main of vikar and the tools leave alone.
core == <<primitive, dist, drawn, table, dist_traveled, planar>>

\* main up to the event loop: the input file sets Nwanted, InCoincidence and
\* PerfectDet, the detector file the detectors; main returns if there is no
\* detector, and otherwise chunk = Nwanted/10 and the loop is entered while
\* Ndetected < Nwanted.
Setup(Nwanted_, InCoincidence_, PerfectDet_, bars) ==
  /\ pc = "setup"
  /\ UNCHANGED <<core, packs, y_out, counters, flag, HitDetect1, HitDetect2,
                 eject_mult, recoil_mult, entries, report>>
  /\ call' = [op |-> "Setup"]
  /\ ret' = NoReturn
  /\ Nwanted' = Nwanted_
  /\ InCoincidence' = InCoincidence_
  /\ PerfectDet' = PerfectDet_
  /\ vandle_bars' = bars
  /\ IF Len(bars) < 1
     THEN /\ pc' = "exit"
          /\ UNCHANGED chunk
     ELSE /\ chunk' = Nwanted_ \div 10
          /\ pc' = IF Ndetected < Nwanted_ THEN "loop" ELSE "done"

\* What the condition flag && (Ndetected % chunk == 0) of the time estimate
\* can do: with flag set and chunk = 0 the remainder is undefined, and the
\* program traps or goes on with either value of the comparison.
TimeEstimate(flag_, chunk_, Ndetected_) ==
  IF ~flag_ THEN {"skip"}
  ELSE IF chunk_ = 0 THEN {"trap", "print", "skip"}
  ELSE IF Ndetected_ % chunk_ = 0 THEN {"print"}
  ELSE {"skip"}

\* The random numbers an event draws for its detectors: for a detector
\* struck, whether the efficiency test loses the hit and whether the energy
\* deposit of a hit not lost lies in the window.
DrawsOf(b, r, perfect) ==
  IF ~r.ret THEN {[lost |-> FALSE, window |-> FALSE]}
  ELSE {[lost |-> FALSE, window |-> w] : w \in BOOLEAN}
         \cup (IF ~perfect /\ b.sized
               THEN {[lost |-> TRUE, window |-> FALSE]}
               ELSE {})

Draws(bars, struck, perfect) ==
  {d \in [1..Len(bars) -> [lost : BOOLEAN, window : BOOLEAN]] :
     \A i \in 1..Len(bars) : d[i] \in DrawsOf(bars[i], struck[i], perfect)}

\* The end of an event that counts every record as a detection.
EventDetectedPerRecord(estimate, beam, flag_, acc, detected) ==
  /\ call' = [op |-> "Event", estimate |-> estimate, outcome |-> "reaction",
              Zdepth |-> beam[1], range_beam |-> beam[2],
              ejects |-> acc.ejects, recoils |-> acc.recoils,
              reads |-> acc.reads, detected |-> detected]
  /\ NbarHit' = acc.NbarHit
  /\ HitDetect1' = acc.HitDetect1
  /\ HitDetect2' = acc.HitDetect2
  /\ flag' = (detected \/ flag_)
  /\ entries' = IF detected THEN entries + 1 ELSE entries
  /\ Ndetected' = Ndetected + acc.ejects + acc.recoils
  /\ eject_mult' = RecordZero
  /\ recoil_mult' = RecordZero
  /\ pc' = IF Ndetected + acc.ejects + acc.recoils < Nwanted
           THEN "loop" ELSE "done"

\* The end of an event that leaves the records as they are.
EventDetectedKeepsRecords(estimate, beam, flag_, acc, detected) ==
  /\ call' = [op |-> "Event", estimate |-> estimate, outcome |-> "reaction",
              Zdepth |-> beam[1], range_beam |-> beam[2],
              ejects |-> acc.ejects, recoils |-> acc.recoils,
              reads |-> acc.reads, detected |-> detected]
  /\ NbarHit' = acc.NbarHit
  /\ HitDetect1' = acc.HitDetect1
  /\ HitDetect2' = acc.HitDetect2
  /\ flag' = (detected \/ flag_)
  /\ entries' = IF detected THEN entries + 1 ELSE entries
  /\ Ndetected' = IF detected THEN Ndetected + 1 ELSE Ndetected
  /\ eject_mult' = acc.eject_mult
  /\ recoil_mult' = acc.recoil_mult
  /\ pc' = IF (IF detected THEN Ndetected + 1 ELSE Ndetected) < Nwanted
           THEN "loop" ELSE "done"

\* The rest of an event in which a reaction occurred, from the loop over the
\* detectors to the zeroing of the records; acc is what that loop left.
EventDetected(estimate, beam, flag_, acc, detected) ==
  /\ call' = [op |-> "Event", estimate |-> estimate, outcome |-> "reaction",
              Zdepth |-> beam[1], range_beam |-> beam[2],
              ejects |-> acc.ejects, recoils |-> acc.recoils,
              reads |-> acc.reads, detected |-> detected]
  /\ NbarHit' = acc.NbarHit
  /\ HitDetect1' = acc.HitDetect1
  /\ HitDetect2' = acc.HitDetect2
  /\ flag' = (detected \/ flag_)
  /\ entries' = IF detected THEN entries + 1 ELSE entries
  /\ Ndetected' = IF detected THEN Ndetected + 1 ELSE Ndetected
  /\ eject_mult' = RecordZero
  /\ recoil_mult' = RecordZero
  /\ pc' = IF (IF detected THEN Ndetected + 1 ELSE Ndetected) < Nwanted
           THEN "loop" ELSE "done"

\* An event that ends at a continue statement, with an entry filled into
\* the output tree.
EventEndedFilled(estimate, beam, flag_, outcome) ==
  /\ call' = [op |-> "Event", estimate |-> estimate, outcome |-> outcome,
              Zdepth |-> beam[1], range_beam |-> beam[2]]
  /\ flag' = flag_
  /\ entries' = entries + 1
  /\ UNCHANGED <<Ndetected, NbarHit, HitDetect1, HitDetect2, eject_mult,
                 recoil_mult, pc>>

\* An event that ends at a continue statement.
EventEnded(estimate, beam, flag_, outcome) ==
  /\ call' = [op |-> "Event", estimate |-> estimate, outcome |-> outcome,
              Zdepth |-> beam[1], range_beam |-> beam[2]]
  /\ flag' = flag_
  /\ UNCHANGED <<Ndetected, NbarHit, HitDetect1, HitDetect2, eject_mult,
                 recoil_mult, entries, pc>>

\* One pass of while(Ndetected < Nwanted).
Event(Zdepth, range_beam, reacted, lab_beam_interaction, Ejectile, Recoil) ==
  /\ pc = "loop"
  /\ Nsimulated < MaxEvents
  /\ UNCHANGED <<core, packs, y_out, setup>>
  /\ ret' = NoReturn
  /\ \E estimate \in TimeEstimate(flag, chunk, Ndetected) :
       IF estimate = "trap"
       THEN /\ pc' = "fault"
            /\ call' = [op |-> "Event", estimate |-> estimate,
                        outcome |-> "trap"]
            /\ UNCHANGED <<counters, flag, HitDetect1, HitDetect2,
                           eject_mult, recoil_mult, entries, report>>
       ELSE /\ report' = IF estimate = "print"
                         THEN Append(report, Ndetected) ELSE report
            /\ Nsimulated' = Nsimulated + 1
            /\ IF RLe(RSub(range_beam, Zdepth), R(0))
               THEN /\ beam_stopped' = beam_stopped + 1
                    /\ UNCHANGED Nreactions
                    /\ EventEnded(estimate, <<Zdepth, range_beam>>,
                                  flag /\ estimate # "print", "stopped")
               ELSE IF ~reacted
               THEN /\ UNCHANGED <<beam_stopped, Nreactions>>
                    /\ EventEnded(estimate, <<Zdepth, range_beam>>,
                                  flag /\ estimate # "print", "no reaction")
               ELSE /\ UNCHANGED beam_stopped
                    /\ Nreactions' = Nreactions + 1
                    /\ \E struck \in
                            {[i \in 1..Len(vandle_bars) |->
                                BarStruck(vandle_bars[i],
                                          lab_beam_interaction, Ejectile,
                                          Recoil)]} :
                       \E draws \in Draws(vandle_bars, struck, PerfectDet) :
                       \E acc \in
                            {ProcessBars(vandle_bars, struck, PerfectDet,
                                         draws, 0,
                                         [NbarHit |-> NbarHit,
                                          HitDetect1 |-> HitDetect1,
                                          HitDetect2 |-> HitDetect2,
                                          eject_mult |-> eject_mult,
                                          recoil_mult |-> recoil_mult,
                                          ejects |-> 0, recoils |-> 0,
                                          reads |-> <<>>])} :
                         EventDetected(estimate, <<Zdepth, range_beam>>,
                                       flag /\ estimate # "print", acc,
                                       Coincident(InCoincidence,
                                                  acc.eject_mult,
                                                  acc.recoil_mult))

(***************************************************************************)
(* Interpolate and comConverter operations                                 *)
(***************************************************************************)
\* Interpolate called with the caller's variable y_out as y.
InterpolateCall(x, x_, y_, len_) ==
  /\ UNCHANGED <<core, loop, packs>>
  /\ call' = [op |-> "Interpolate", x |-> x, xs |-> x_, ys |-> y_,
              len |-> len_]
  /\ \E r \in {Interpolate(x, x_, y_, len_)} :
       /\ ret' = r.ret
       /\ y_out' = Written(y_out, r.y)

\* double comConverter::convertEject2lab(const double &com_) and
\* convertRecoil2lab, for a converter with the columns com and lab: retval,
\* here y_out, starts at -9999 and is returned.
ConvertToLab(com_, com, lab) ==
  /\ UNCHANGED <<core, loop, packs>>
  /\ call' = [op |-> "convert2lab", x |-> com_, xs |-> com, ys |-> lab,
              len |-> Len(com)]
  /\ \E r \in {Interpolate(com_, com, lab, Len(com))} :
       /\ y_out' = Written(NoConversion, r.y)
       /\ ret' = Written(NoConversion, r.y)

(***************************************************************************)
(* DataPack operations                                                     *)
(***************************************************************************)
\* DataPack(): the pack in scope is destroyed, which does nothing as it is
\* not initialized, and a new one is constructed.
DataPackDefault ==
  /\ pc # "fault"
  /\ ~pack.init
  /\ UNCHANGED <<core, loop, y_out, disk>>
  /\ call' = [op |-> "DataPack"]
  /\ ret' = NoReturn
  /\ pack' = DataPack

\* DataPack(std::string fname_, unsigned int Nbins_, bool write_rxn_): the
\* pack in scope is destroyed and a new one constructed, whose constructor
\* calls Open, which reads init before anything has assigned it.
DataPackNamed(fname_, write_rxn_) ==
  /\ pc # "fault"
  /\ ~pack.init
  /\ UNCHANGED <<core, loop, y_out>>
  /\ \E init_ \in BOOLEAN :
     \E r \in {OpenPack(DataPackRaw(init_), disk, fname_, write_rxn_)} :
       /\ call' = [op |-> "DataPack", fname |-> fname_,
                   write_rxn |-> write_rxn_, opened |-> r.ret]
       /\ ret' = NoReturn
       /\ pack' = r.pack
       /\ disk' = r.disk

\* bool IsInit(){ return init; }
IsInit ==
  /\ pc # "fault"
  /\ UNCHANGED <<core, tools>>
  /\ call' = [op |-> "IsInit"]
  /\ ret' = pack.init

\* bool DataPack::Open(std::string fname_, bool write_rxn_)
Open(fname_, write_rxn_) ==
  /\ pc # "fault"
  /\ UNCHANGED <<core, loop, y_out>>
  /\ \E r \in {OpenPack(pack, disk, fname_, write_rxn_)} :
       /\ call' = [op |-> "Open", fname |-> fname_, write_rxn |-> write_rxn_]
       /\ ret' = r.ret
       /\ pack' = r.pack
       /\ disk' = r.disk

\* bool DataPack::Close()
Close ==
  /\ pc # "fault"
  /\ UNCHANGED <<core, setup, counters, flag, HitDetect1, HitDetect2,
                 eject_mult, recoil_mult, entries, report, y_out>>
  /\ IF ~pack.init
     THEN /\ call' = [op |-> "Close", outcome |-> "refused"]
          /\ ret' = FALSE
          /\ UNCHANGED <<pack, disk, pc>>
     ELSE \E outcome \in Closing(pack) :
            /\ call' = [op |-> "Close", outcome |-> outcome]
            /\ IF outcome = "trap"
               THEN /\ pc' = "fault"
                    /\ ret' = NoReturn
                    /\ UNCHANGED <<pack, disk>>
               ELSE /\ pc' = pc
                    /\ ret' = TRUE
                    /\ pack' =
                         [pack EXCEPT
                            !.init = FALSE,
                            !.file.state =
                              IF outcome = "written" THEN "closed" ELSE @,
                            !.tree.state =
                              IF outcome = "written" THEN "written" ELSE @]
                    /\ disk' = IF outcome = "written"
                               THEN [disk EXCEPT ![pack.file.name] = "tree"]
                               ELSE disk

(***************************************************************************)
(* Inputs                                                                  *)


(***************************************************************************)
\* Extents are drawn from 1..MaxSize.
MaxSize == 2

\* Face numbers are drawn from 0..MaxFace; the faces are 0..5.
MaxFace == 6

\* Angles with rational sine and cosine: 0, 90 and 180 degrees, atan(3/4).
Deg0 == [s |-> R(0), c |-> R(1)]

Deg90 == [s |-> R(1), c |-> R(0)]

Deg180 == [s |-> R(0), c |-> R(-1)]

Atan34 == [s |-> <<3, 5>>, c |-> <<4, 5>>]

Angles == {Deg0, Deg90, Deg180, Atan34}

\* <<length, width, depth>>
Sizes ==
  {<<R(l), R(w), R(d)>> : l \in 1..MaxSize, w \in 1..MaxSize, d \in 1..MaxSize}

\* Rays <<offset, direction>>: along the beam axis from in front of the
\* prism, slanted from in front, from beyond the prism and away from it, from
\* beyond the prism and back through it, along the space diagonal, and from
\* the global origin.
AxisRay == <<Vec(0, 0, -10), Vec(0, 0, 1)>>

SlantRay == <<Vec(0, 0, -10), Vec(1, 0, 10)>>

AwayRay == <<Vec(0, 0, 5), Vec(0, 0, 1)>>

BackRay == <<Vec(0, 0, 10), Vec(0, 0, -1)>>

DiagonalRay == <<Vec(-3, -3, -3), Vec(1, 1, 1)>>

OriginRay == <<Vec(0, 0, 0), Vec(0, 0, 1)>>

(***************************************************************************)
(* The life of one primitive: mutators interleaved with queries            *)
(***************************************************************************)
LifeSizes == {<<R(1), R(1), R(d)>> : d \in 1..MaxSize}

LifeRays == {AxisRay, BackRay}

Next ==
  \/ SetPosition(Vec(0, 0, 3))
  \/ SetPolarPosition(R(5), Deg0, Deg0)
  \/ \E theta_ \in {Deg0, Atan34} : SetRotation(theta_, Deg0, Deg0)
  \/ SetUnitVectors(Vec(1, 0, 0), Vec(0, 0, 2), Vec(0, -2, 0))
  \/ \E sz \in LifeSizes : SetSize(sz[1], sz[2], sz[3])
  \/ \E ray \in LifeRays, f \in {0, 1} :
       PlaneIntersectCall(ray[1], ray[2], f)
  \/ \E ray \in LifeRays : IntersectPrimitiveCall(ray[1], ray[2])
  \/ \E ray \in LifeRays, f2 \in {2, MaxFace} :
       GetApparentThicknessCall(ray[1], ray[2], 0, f2)
  \/ DumpVertex

Spec == Init /\ [][Next]_vars

(***************************************************************************)
(* Rotation updates                                                        *)
(***************************************************************************)
UnitInputs ==
  {Vec(1, 0, 0), Vec(0, 2, 0), Vec(0, 0, 1), Vec(3, 4, 0), Vec(0, 0, 0)}

RotationNext ==
  \/ \E theta_ \in Angles, phi_ \in Angles, psi_ \in Angles :
       SetRotation(theta_, phi_, psi_)
  \/ \E unitX \in UnitInputs, unitY \in UnitInputs, unitZ \in UnitInputs :
       SetUnitVectors(unitX, unitY, unitZ)

SpecRotation == Init /\ [][RotationNext]_vars

(***************************************************************************)
(* Bounds tests on a prism of each size                                    *)
(***************************************************************************)
BoundsCoords == {R(-1), <<1, 2>>, <<3, 2>>}

BoundsInit ==
  \E sz \in Sizes : InitDet(Vec(0, 0, 0), Deg0, Deg0, Deg0, sz)

BoundsNext ==
  \E face_ \in 0..MaxFace, x_ \in BoundsCoords, y_ \in BoundsCoords,
     z_ \in BoundsCoords : CheckBoundsCall(face_, x_, y_, z_)

SpecBounds == BoundsInit /\ [][BoundsNext]_vars

(***************************************************************************)
(* Rays through a placed detector                                          *)
(***************************************************************************)
RayPositions == {Vec(0, 0, 0), Vec(0, 0, 3)}

RayTilts == {Deg0, Atan34}

Rays == {AxisRay, SlantRay, AwayRay, BackRay, DiagonalRay, OriginRay}

RayInit ==
  \E pos \in RayPositions, theta_ \in RayTilts, sz \in Sizes :
    InitDet(pos, theta_, Deg0, Deg0, sz)

RayNext == \E ray \in Rays : IntersectPrimitiveCall(ray[1], ray[2])

SpecRay == RayInit /\ [][RayNext]_vars

(***************************************************************************)
(* Plane crossings and thickness between named faces                       *)
(***************************************************************************)
PlaneSizes == {<<R(1), R(w), R(MaxSize)>> : w \in 1..MaxSize}

PlaneRays == {AxisRay, SlantRay, AwayRay, BackRay}

PlaneInit ==
  \E theta_ \in RayTilts, sz \in PlaneSizes :
    InitDet(Vec(0, 0, 0), theta_, Deg0, Deg0, sz)

PlaneNext ==
  \/ \E ray \in PlaneRays, face_ \in 0..5 :
       PlaneIntersectCall(ray[1], ray[2], face_)
  \/ \E ray \in PlaneRays : IntersectPrimitiveCall(ray[1], ray[2])
  \/ \E ray \in PlaneRays, f1_ \in 0..MaxFace, f2_ \in 0..MaxFace :
       GetApparentThicknessCall(ray[1], ray[2], f1_, f2_)

SpecPlane == PlaneInit /\ [][PlaneNext]_vars

(***************************************************************************)
(* The life of an AngularDist                                              *)
(***************************************************************************)
\* Tables have at most MaxPoints points.
MaxPoints == 3

\* frand() returns a multiple of 1/FrandSteps in [0, 1].
FrandSteps == 4

Frand == {Norm(k, FrandSteps) : k \in 0..FrandSteps}

\* Table points: an angle in degrees and a differential cross-section.
TablePoints == {<<R(0), R(1)>>, <<R(90), R(1)>>, <<R(90), R(0)>>,
                <<R(180), R(1)>>}

\* The tables of at most MaxPoints points whose angles do not decrease.
Tables ==
  {t \in UNION {[1..n -> TablePoints] : n \in 0..MaxPoints} :
     \A i \in 1..(Len(t) - 1) : RLe(t[i][1], t[i + 1][1])}

Files ==
  {[good |-> FALSE, points |-> <<>>]}
    \cup {[good |-> TRUE, points |-> t] : t \in Tables}

Targets == {NoTarget, [null |-> FALSE, density |-> R(2)]}

Column(t, k) == [i \in 1..Len(t) |-> t[i][k]]

AngularNext ==
  \/ \E file \in Files, targ_ \in Targets :
       InitializeFile(file, R(1), targ_)
  \/ \E t \in Tables, targ_ \in Targets :
       InitializeArrays(Len(t), Column(t, 1), Column(t, 2), R(1), targ_)
  \/ \E xsection_ \in {R(-1), R(0), R(3)} : InitializeIsotropic(xsection_)
  \/ \E r \in Frand : Sample(r)

SpecAngular == Init /\ [][AngularNext]_vars

(***************************************************************************)
(* AngularDist on tables with bins of zero cross-section                   *)
(***************************************************************************)
\* Table points with zero cross-section at 0 and 45 degrees.
ZeroPoints == {<<R(0), R(0)>>, <<R(45), R(0)>>, <<R(90), R(1)>>}

\* The tables of two or three such points whose angles increase.
ZeroTables ==
  {t \in UNION {[1..n -> ZeroPoints] : n \in 2..MaxPoints} :
     \A i \in 1..(Len(t) - 1) : RLt(t[i][1], t[i + 1][1])}

ZeroBinsNext ==
  \/ \E t \in ZeroTables, targ_ \in Targets :
       InitializeFile([good |-> TRUE, points |-> t], R(1), targ_)
  \/ \E t \in ZeroTables, targ_ \in Targets :
       InitializeArrays(Len(t), Column(t, 1), Column(t, 2), R(1), targ_)
  \/ \E r \in Frand : Sample(r)

SpecZeroBins == Init /\ [][ZeroBinsNext]_vars

(***************************************************************************)
(* The life of a RangeTable                                                *)
(***************************************************************************)
\* Tables have at most MaxEntries entries.
MaxEntries == 3

Materials == {[k |-> R(2)]}

\* What an allocation may leave in the entries of an array never filled.
Unfilled == {R(0), R(7)}

\* The points Set is called with.
SetPoints == {<<R(0), R(0)>>, <<R(1), R(1)>>, <<R(5), R(25)>>}

TableNext ==
  \/ \E n \in 0..MaxEntries, unfilled \in Unfilled :
       RangeTableInit(n, unfilled)
  \/ \E n \in 0..MaxEntries, startE_ \in {R(1), R(5)}, mat_ \in Materials :
       RangeTableInitFill(n, startE_, R(5), mat_)
  \/ \E index \in 0..MaxEntries, pt \in SetPoints :
       RangeTableSet(index, pt[1], pt[2])
  \/ \E energy_ \in {R(0), R(2), R(5)}, dist_ \in {R(0), R(4), R(50)} :
       GetNewE(energy_, dist_)

SpecTable == Init /\ [][TableNext]_vars

(***************************************************************************)
(* Pairs of lines in the plane                                             *)
(***************************************************************************)
\* Coordinates of points and directions lie in -MaxCoord..MaxCoord.
MaxCoord == 2

LinePoints == {Vec(0, 0, 0), Vec(1, MaxCoord, 0), Vec(-1, 1, 0)}

LineDirections ==
  {Vec(1, 0, 0), Vec(0, 1, 0), Vec(1, 1, 0), Vec(MaxCoord, -1, 0)}

LinesNext ==
  \E p1_ \in LinePoints, d1_ \in LineDirections, p2_ \in LinePoints,
     d2_ \in LineDirections : GetT1T2Call(p1_, d1_, p2_, d2_)

SpecLines == Init /\ [][LinesNext]_vars

(***************************************************************************)
(* Points tested against a polygon                                         *)
(***************************************************************************)
\* Polygons have an inscribed radius of at most MaxRadius.
MaxRadius == 2

\* Test coordinates: within every polygon, on the edge of the smallest and
\* beyond the largest.
TestCoords ==
  {R(-2 * MaxRadius), <<-1, 2>>, R(0), <<1, 2>>, R(1), R(2 * MaxRadius)}

PolygonNext ==
  \/ \E radius_ \in 1..MaxRadius, nSides_ \in {0, 4} :
       PolygonInitialize(R(radius_), nSides_)
  \/ \E x_ \in TestCoords, y_ \in TestCoords : IsInsideCall(x_, y_)

SpecPolygon == Init /\ [][PolygonNext]_vars

(***************************************************************************)
(* The event loop of vikar                                                 *)
(***************************************************************************)
\* A bar of the given extents at pos, its axes along the global ones.
Bar(pos, size, recoil_, sized_) ==
  [position |-> pos, detX |-> Vec(1, 0, 0), detY |-> Vec(0, 1, 0),
   detZ |-> Vec(0, 0, 1), length |-> size[1], width |-> size[2],
   depth |-> size[3], recoil |-> recoil_, sized |-> sized_]

\* A small ejectile bar in front of the target, an ejectile detector behind
\* it, a recoil detector upstream, and an ejectile detector that encloses
\* the target.
FrontBar == Bar(Vec(0, 0, 3), <<<<3, 5>>, <<3, 100>>, <<3, 100>>>>, FALSE, TRUE)

BackBar == Bar(Vec(0, 0, 6), <<R(1), R(1), R(1)>>, FALSE, FALSE)

RecoilBar == Bar(Vec(0, 0, -3), <<R(1), R(1), R(1)>>, TRUE, FALSE)

AroundBar == Bar(Vec(0, 0, 0), <<R(2), R(2), R(2)>>, FALSE, FALSE)

DetectorFiles ==
  {<<>>, <<FrontBar, RecoilBar>>, <<FrontBar, BackBar>>,
   <<FrontBar, AroundBar>>}

\* Desired detections: none, one, fewer than ten, ten.
Wanted == {0, 1, 2, 10}

\* Directions <<Ejectile, Recoil>>: the ejectile downstream or sideways, the
\* recoil upstream.
Kinematics == {<<Vec(0, 0, 1), Vec(0, 0, -1)>>, <<Vec(1, 0, 0), Vec(0, 0, -1)>>}

\* Beam ranges in the target, for an interaction depth of 1.
Ranges == {R(1), R(2)}

LoopNext ==
  \/ \E Nwanted_ \in Wanted, InCoincidence_ \in BOOLEAN,
        PerfectDet_ \in BOOLEAN, bars \in DetectorFiles :
       Setup(Nwanted_, InCoincidence_, PerfectDet_, bars)
  \/ \E range_beam \in Ranges, reacted \in BOOLEAN, kin \in Kinematics :
       Event(R(1), range_beam, reacted, Vec(0, 0, 0), kin[1], kin[2])

SpecLoop == Init /\ [][LoopNext]_vars

(***************************************************************************)
(* Interpolation in a table                                                *)
(***************************************************************************)
\* Tables hold at most MaxRows points.
MaxRows == 3

\* Points <<x, y>> of the tables.
Rows == {<<R(0), R(0)>>, <<R(1), R(2)>>, <<R(2), R(1)>>}

\* The tables of at most MaxRows points whose abscissae do not decrease.
Curves ==
  {t \in UNION {[1..n -> Rows] : n \in 0..MaxRows} :
     \A i \in 1..(Len(t) - 1) : RLe(t[i][1], t[i + 1][1])}

\* Abscissae: below, at, between and beyond the points, and not a number.
Abscissae ==
  {R(-1), R(0), R(1), <<3, 2>>, R(2), R(3), NaN}

InterpolateNext ==
  \/ \E x \in Abscissae, t \in Curves :
       InterpolateCall(x, Column(t, 1), Column(t, 2), Len(t))
  \/ \E x \in Abscissae, t \in Curves :
       ConvertToLab(x, Column(t, 1), Column(t, 2))

SpecInterpolate == Init /\ [][InterpolateNext]_vars

(***************************************************************************)
(* The life of a DataPack                                                  *)
(***************************************************************************)
\* The names given to Open: the two that can be written and one in a
\* directory that does not exist.
FileNames == Writable \cup {"nowhere/mcarlo.root"}

PackNext ==
  \/ DataPackDefault
  \/ \E fname_ \in FileNames, write_rxn_ \in BOOLEAN :
       DataPackNamed(fname_, write_rxn_)
  \/ \E fname_ \in FileNames, write_rxn_ \in BOOLEAN : Open(fname_, write_rxn_)
  \/ Close
  \/ IsInit

SpecPack == Init /\ [][PackNext]_vars

(***************************************************************************)
(* Reference geometry.  The properties below compare what the operations   *)
(* return with the prism's geometry stated directly: face f lies in the    *)
(* plane through its centre perpendicular to its axis, and is the part of  *)
(* that plane within half an extent of the centre along the other two axes.*)
(***************************************************************************)
GeoAxis(pr, f) ==
  IF f \in {0, 2} THEN pr.detZ ELSE IF f \in {1, 3} THEN pr.detX ELSE pr.detY

GeoExtent(pr, f) ==
  IF f \in {0, 2} THEN pr.depth ELSE IF f \in {1, 3} THEN pr.width
  ELSE pr.length

\* position -detZ*depth/2, +detX*width/2, +detZ*depth/2, -detX*width/2,
\* +detY*length/2, -detY*length/2
GeoCentre(pr, f) ==
  VAdd(pr.position,
       VScale(GeoAxis(pr, f),
              RDiv(GeoExtent(pr, f), IF f \in {1, 2, 4} THEN R(2) ELSE R(-2))))

GeoDen(pr, d, f) == Dot(d, GeoAxis(pr, f))

\* The ray parameter of the crossing of face f's plane, when GeoDen is not 0.
GeoT(pr, o, d, f) ==
  RDiv(Dot(VSub(GeoCentre(pr, f), o), GeoAxis(pr, f)), GeoDen(pr, d, f))

\* The ray o + t*d, t >= 0, crosses the plane of face f.
GeoCrosses(pr, o, d, f) ==
  ~IsZero(GeoDen(pr, d, f)) /\ RLe(R(0), GeoT(pr, o, d, f))

GeoPoint(pr, o, d, f) == VAdd(o, VScale(d, GeoT(pr, o, d, f)))

\* The local coordinates <<x, y, z>> of a point.
GeoLocal(pr, pt) ==
  <<Dot(VSub(pt, pr.position), pr.detX), Dot(VSub(pt, pr.position), pr.detY),
    Dot(VSub(pt, pr.position), pr.detZ)>>

\* |c| <= extent/2, as 4*c*c <= extent*extent.
GeoWithin(c, extent) == RLe(RMul(R(4), RMul(c, c)), RMul(extent, extent))

\* A point with local coordinates loc lies within the rectangle of face f.
GeoInside(pr, f, loc) ==
  IF f \in {0, 2}
  THEN GeoWithin(loc[1], pr.width) /\ GeoWithin(loc[2], pr.length)
  ELSE IF f \in {1, 3}
  THEN GeoWithin(loc[3], pr.depth) /\ GeoWithin(loc[2], pr.length)
  ELSE GeoWithin(loc[1], pr.width) /\ GeoWithin(loc[3], pr.depth)

\* The ray strikes face f.
GeoStruck(pr, o, d, f) ==
  /\ GeoCrosses(pr, o, d, f)
  /\ GeoInside(pr, f, GeoLocal(pr, GeoPoint(pr, o, d, f)))

GeoStruckFaces(pr, o, d) == {f \in 0..5 : GeoStruck(pr, o, d, f)}

(***************************************************************************)
(* Properties                                                              *)
(***************************************************************************)
Mutators ==
  {"SetPosition", "SetPolarPosition", "SetRotation", "SetUnitVectors",
   "SetSize"}

\* The cached face centres are those of the current position, axes and size.
FacesCurrent == \A f \in 0..5 : VEq(GlobalFace[f + 1], GeoCentre(Prim, f))

\* The last call was a query that reads the face centres.
FaceQuery ==
  \/ call.op \in {"PlaneIntersect", "IntersectPrimitive", "DumpVertex"}
  \/ call.op = "GetApparentThickness" /\ call.f1 <= 5 /\ call.f2 <= 5

\* C1: cache coherence.  Every mutator (SetPosition, SetPolarPosition,
\* SetRotation, SetUnitVectors, SetSize) leaves need_set true and GlobalFace
\* untouched; every query that reads the face centres (PlaneIntersect,
\* IntersectPrimitive, DumpVertex, GetApparentThickness with two valid face
\* numbers) leaves need_set false and GlobalFace[0..5] equal to the face
\* centres of the current position, axes and size, so that whenever need_set
\* is false the cache is current.  GetApparentThickness with a face number
\* above 5 returns -1 before it reads or refreshes the cache.
CacheCoherent ==
  /\ [](~need_set => FacesCurrent)
  /\ [](FaceQuery => ~need_set /\ FacesCurrent)
  /\ [][/\ call'.op \in Mutators => need_set' /\ GlobalFace' = GlobalFace
        /\ call'.op \notin Mutators => geom' = geom
        /\ (call'.op = "GetApparentThickness"
              /\ (call'.f1 > 5 \/ call'.f2 > 5)) =>
             /\ ret' = MinusOne
             /\ UNCHANGED <<need_set, GlobalFace>>]_vars

\* C1 witness: IntersectPrimitive found face centres cached for an earlier
\* geometry, recomputed them and reported a hit.
CacheRefreshed ==
  /\ call.op = "IntersectPrimitive"
  /\ call.stale
  /\ ret = TRUE
  /\ ~need_set
  /\ FacesCurrent

\* The ray of the last query is parallel to the plane of face f.
Parallel(f) == IsZero(GeoDen(Prim, call.direction, f))

\* C2: a ray exactly parallel to the plane of the face (direction_ . unit = 0)
\* is guarded: PlaneIntersect returns false, performs no division by zero and
\* writes no unbounded or undefined point to P.
ParallelRayGuarded ==
  (call.op = "PlaneIntersect" /\ Parallel(call.face)) =>
    ret = FALSE /\ ~divzero /\ VFinite(P)

\* C2 witness: PlaneIntersect on a parallel ray divided by zero, returned
\* true and wrote a point that is not finite.
ParallelRayUnguarded ==
  /\ call.op = "PlaneIntersect"
  /\ Parallel(call.face)
  /\ divzero
  /\ ret = TRUE
  /\ ~VFinite(P)

\* The last call was IntersectPrimitive with this ray.
Shot(ray) ==
  /\ call.op = "IntersectPrimitive"
  /\ call.offset = ray[1]
  /\ call.direction = ray[2]

\* The prism is centred at the origin with the global axes as its axes.
AtOriginUnrotated ==
  /\ VEq(position, Vec(0, 0, 0))
  /\ VEq(detX, Vec(1, 0, 0))
  /\ VEq(detY, Vec(0, 1, 0))
  /\ VEq(detZ, Vec(0, 0, 1))

StruckFaces == GeoStruckFaces(Prim, call.offset, call.direction)

\* C4: IntersectPrimitive returns true if and only if at least one of the six
\* faces is struck: the ray crosses the face's plane at t >= 0 and the
\* crossing point, in local coordinates, lies within the face's rectangle.
HitIffStruck ==
  call.op = "IntersectPrimitive" => (ret <=> StruckFaces # {})

\* C4 witness: the ray crosses the plane of some face ahead of its origin,
\* every crossing falls outside its rectangle, and false is returned.
MissOutsideBounds ==
  /\ call.op = "IntersectPrimitive"
  /\ ret = FALSE
  /\ StruckFaces = {}
  /\ \E f \in 0..5 : GeoCrosses(Prim, call.offset, call.direction, f)

\* The ray of the last query crosses the plane of face f at t >= 0.
Ahead(f) == GeoCrosses(Prim, call.offset, call.direction, f)

\* C5: a face is a candidate only when its plane is crossed at t >= 0.
\* PlaneIntersect, for a ray not parallel to the plane, returns true exactly
\* when t >= 0; every face IntersectPrimitive reports, and both faces of a
\* thickness GetApparentThickness returns, are crossed at t >= 0, so that a
\* prism wholly behind the ray origin is never reported as hit.
CandidatesAhead ==
  /\ (call.op = "PlaneIntersect" /\ ~Parallel(call.face)) =>
       (ret <=> Ahead(call.face))
  /\ call.op = "IntersectPrimitive" =>
       /\ face1 # NoFace => Ahead(face1)
       /\ face2 # NoFace => Ahead(face2)
       /\ ret => \E f \in 0..5 : Ahead(f)
  /\ (call.op = "GetApparentThickness" /\ ret # MinusOne) =>
       Ahead(call.f1) /\ Ahead(call.f2)

\* C5 witness: the line of the ray passes through a face's rectangle, but
\* behind the ray origin, and IntersectPrimitive returns false.
BehindNotHit ==
  /\ call.op = "IntersectPrimitive"
  /\ ret = FALSE
  /\ \E f \in 0..5 :
       /\ ~Parallel(f)
       /\ ~Ahead(f)
       /\ GeoInside(Prim, f,
            GeoLocal(Prim, GeoPoint(Prim, call.offset, call.direction, f)))

\* The ray parameter and the point at which the last query's ray crosses the
\* plane of face f.
TOf(f) == GeoT(Prim, call.offset, call.direction, f)

PointOf(f) == GeoPoint(Prim, call.offset, call.direction, f)

\* The struck faces nearest to the ray origin.
EntryFaces == {f \in StruckFaces : \A g \in StruckFaces : RLe(TOf(f), TOf(g))}

\* C6: when IntersectPrimitive finds two or more faces struck, the local
\* coordinates (px, py, pz) it returns are those of the struck point nearest
\* to the ray origin offset_, for every ray origin and also when three faces
\* are struck at a corner.
EntryCoordinates ==
  (call.op = "IntersectPrimitive" /\ face_count >= 2) =>
    \E f \in EntryFaces : VEq(<<px, py, pz>>, GeoLocal(Prim, PointOf(f)))

\* C6 witness: two faces are struck and (px, py, pz) are the coordinates of
\* the struck point farther from the ray origin.
ExitCoordinates ==
  /\ call.op = "IntersectPrimitive"
  /\ face_count = 2
  /\ \E f \in StruckFaces \ EntryFaces :
       VEq(<<px, py, pz>>, GeoLocal(Prim, PointOf(f)))
  /\ \A f \in EntryFaces : ~VEq(<<px, py, pz>>, GeoLocal(Prim, PointOf(f)))

InclusiveBounds ==
  call.op = "CheckBounds" =>
    (ret <=> (call.face <= 5
                /\ GeoInside(Prim, call.face, <<call.x, call.y, call.z>>)))

\* C8 witness: a point on a corner of face 0, x = width/2 and y = length/2,
\* is in bounds.
CornerInBounds ==
  /\ call.op = "CheckBounds"
  /\ call.face = 0
  /\ REq(RMul(R(2), call.x), width)
  /\ REq(RMul(R(2), call.y), length)
  /\ ret = TRUE

\* The ray of the last query strikes face f.
StruckAt(f) == f <= 5 /\ f \in StruckFaces

\* C9: GetApparentThickness returns -1 when f1 > 5 or f2 > 5, or when the
\* ray does not cross face f1 or face f2 at t >= 0 within the face's bounds;
\* otherwise it returns the distance between the crossing points on the two
\* named faces, which is never negative.
ThicknessOfNamedFaces ==
  call.op = "GetApparentThickness" =>
    IF StruckAt(call.f1) /\ StruckAt(call.f2)
    THEN /\ ~ret.neg
         /\ REq(ret.sq, DistSq(PointOf(call.f1), PointOf(call.f2)))
         /\ RLe(R(0), ret.sq)
    ELSE ret = MinusOne

\* C9 witness: a thickness from face 2 to face 0, the faces IntersectPrimitive
\* reports in the other order, is returned and is greater than zero.
ThicknessBackToFront ==
  /\ call.op = "GetApparentThickness"
  /\ call.f1 = 2
  /\ call.f2 = 0
  /\ ret # MinusOne
  /\ RLt(R(0), ret.sq)

\* Three vectors of unit length, pairwise orthogonal.
Orthonormal(x, y, z) ==
  /\ REq(LengthSq(x), R(1))
  /\ REq(LengthSq(y), R(1))
  /\ REq(LengthSq(z), R(1))
  /\ REq(Dot(x, y), R(0))
  /\ REq(Dot(y, z), R(0))
  /\ REq(Dot(z, x), R(0))

\* C10: after any rotation update (SetRotation with any three angles,
\* SetUnitVectors with any three vectors) the local axes detX, detY, detZ are
\* each of unit length and pairwise orthogonal.
AxesOrthonormal ==
  call.op \in {"SetRotation", "SetUnitVectors"} =>
    Orthonormal(detX, detY, detZ)

\* C10 witness: SetUnitVectors left three axes of unit length, two of which
\* are not orthogonal.
AxesSkewed ==
  /\ call.op = "SetUnitVectors"
  /\ REq(LengthSq(detX), R(1))
  /\ REq(LengthSq(detY), R(1))
  /\ REq(LengthSq(detZ), R(1))
  /\ ~REq(Dot(detX, detY), R(0))

\* C10, the part that holds: after SetRotation the axes are orthonormal.
RotationOrthonormal ==
  call.op = "SetRotation" => Orthonormal(detX, detY, detZ)

(***************************************************************************)
(* AngularDist properties                                                  *)
(***************************************************************************)
\* C11: AngularDist is write-once.  An Initialize that returns true leaves
\* init set; from then on init stays set, and every call of any Initialize
\* overload returns false and leaves init, num_points, the three arrays,
\* reaction_xsection and rate as they were.
WriteOnce ==
  /\ [](call.op = "Initialize" => (ret = TRUE => init))
  /\ [][init => /\ init'
                /\ call'.op = "Initialize" =>
                     (ret' = FALSE /\ dist' = dist)]_vars

\* C11 witness: an Initialize called on an initialized table returned false.
InitializeRefused ==
  /\ init
  /\ num_points > 1
  /\ call.op = "Initialize"
  /\ ret = FALSE

\* C12: when Initialize(fname, ...) returns false on an object not yet
\* initialized (the file is unreadable, or holds fewer than two data points),
\* init stays false and num_points, com_theta, dsigma_domega, integral,
\* reaction_xsection and rate keep their values from before the call.
FailedFileLeavesState ==
  [][(/\ ~init
      /\ call'.op = "Initialize"
      /\ call'.from = "file"
      /\ ret' = FALSE) => dist' = dist]_vars

\* C12 witness: Initialize(fname, ...) has returned false on an object that
\* is still not initialized, and num_points counts a point of that file.
PointCountLeft ==
  /\ ~init
  /\ call.op = "Initialize"
  /\ call.from = "file"
  /\ ret = FALSE
  /\ num_points = 1
  /\ com_theta = NULL

\* C13: Sample on an object for which no Initialize has returned true (init
\* is false) returns the sentinel -1, draws no random number and changes
\* no state.
SampleNeedsInit ==
  [][(~init /\ call'.op = "Sample") =>
       /\ ret' = SampleFailed
       /\ drawn' = drawn
       /\ dist' = dist
       /\ table' = table
       /\ dist_traveled' = dist_traveled
       /\ planar' = planar
       /\ tools' = tools
       /\ primitive' = primitive]_vars

\* C13 witness: Sample has returned -1 on an object not initialized, after a
\* file of one point was refused.
SampledUninitialized ==
  /\ ~init
  /\ num_points = 1
  /\ call.op = "Sample"
  /\ ret = SampleFailed
  /\ drawn = 0

StrictlyIncreasing(a) == \A i \in 1..(Len(a) - 1) : RLt(a[i], a[i + 1])

\* Bin i of the cumulative integral holds the value v.
BinHolds(filled, v, i) == RLe(filled[i], v) /\ RLe(v, filled[i + 1])

\* The angle at v on the line through (i1, x1) and (i2, x2).
OnLine(i1, x1, i2, x2, v) ==
  RAdd(x1, RDiv(RMul(RSub(v, i1), RSub(x2, x1)), RSub(i2, i1)))

\* The last Sample, which drew v, answered from the first bin that holds v
\* with the angle interpolated in that bin, an angle within the bin.
SampledFrom(v) ==
  \E i \in 1..(num_points - 1) :
    /\ BinHolds(integral, v, i)
    /\ \A j \in 1..(i - 1) : ~BinHolds(integral, v, j)
    /\ ret = Rad(OnLine(integral[i], com_theta[i], integral[i + 1],
                        com_theta[i + 1], v))
    /\ RLe(com_theta[i], ret.q)
    /\ RLe(ret.q, com_theta[i + 1])

\* A table is loaded whose angles and cumulative integral strictly increase.
IncreasingTable ==
  /\ init
  /\ num_points > 1
  /\ StrictlyIncreasing(com_theta)
  /\ StrictlyIncreasing(integral)

\* C14: on a table whose angles strictly increase and whose cumulative
\* integral strictly increases, Sample with the draw r*reaction_xsection, r
\* in [0, 1], finds the first bin i with integral[i] <= draw <= integral[i+1]
\* and returns com_theta[i] + (draw - integral[i]) * (com_theta[i+1] -
\* com_theta[i]) / (integral[i+1] - integral[i]), which lies in
\* [com_theta[i], com_theta[i+1]]; it never returns -1.
SampleInterpolates ==
  (call.op = "Sample" /\ IncreasingTable) =>
    /\ ret # SampleFailed
    /\ SampledFrom(RMul(call.frand, reaction_xsection))

\* C14 witness: a Sample answered from strictly inside the second bin of a
\* table of three points.
SampledSecondBin ==
  /\ call.op = "Sample"
  /\ IncreasingTable
  /\ num_points = 3
  /\ ret.pi = 1
  /\ RLt(com_theta[2], ret.q)
  /\ RLt(ret.q, com_theta[3])

\* 2*pi*0.5*(x2-x1)*(d1*sin(x1) + d2*sin(x2)), in units of pi*pi.
TrapezoidArea(x1, d1, x2, d2) ==
  RMul(RMul(RMul(R(2), <<1, 2>>), RSub(x2, x1)),
       RAdd(RMul(d1, StdSin(x1)), RMul(d2, StdSin(x2))))

\* integral starts at 0, grows by the trapezoid of each bin and ends at
\* reaction_xsection.
IntegralRecurrence ==
  (init /\ num_points > 1) =>
    /\ integral[1] = R(0)
    /\ \A i \in 1..(num_points - 1) :
         integral[i + 1] =
           RAdd(integral[i],
                TrapezoidArea(com_theta[i], dsigma_domega[i],
                              com_theta[i + 1], dsigma_domega[i + 1]))
    /\ integral[num_points] = reaction_xsection

\* The cross-sections are not negative and the angles increase within
\* [0, pi].
PhysicalTable ==
  /\ \A i \in 1..num_points :
       /\ RLe(R(0), dsigma_domega[i])
       /\ RLe(R(0), com_theta[i])
       /\ RLe(com_theta[i], R(1))
  /\ \A i \in 1..(num_points - 1) : RLe(com_theta[i], com_theta[i + 1])

NonDecreasing(a) == \A i \in 1..(Len(a) - 1) : RLe(a[i], a[i + 1])

\* C15: after a successful tabulated Initialize with N >= 2 points,
\* integral[0] = 0, integral[i+1] = integral[i] + 2*pi*0.5*(theta[i+1] -
\* theta[i])*(dsigma[i]*sin(theta[i]) + dsigma[i+1]*sin(theta[i+1])) for all
\* i < N-1 and integral[N-1] = reaction_xsection; and for cross-sections that
\* are not negative and increasing angles in [0, pi] the integral array does
\* not decrease.
IntegralCumulative ==
  /\ IntegralRecurrence
  /\ (init /\ num_points > 1 /\ PhysicalTable) => NonDecreasing(integral)

\* C15 witness: a table of two points with angles 90 and 180 degrees and
\* cross-sections 0 and 1 is loaded, and its integral falls below zero.
IntegralDecreases ==
  /\ init
  /\ num_points = 2
  /\ com_theta = <<Deg2Rad(R(90)), Deg2Rad(R(180))>>
  /\ dsigma_domega = <<R(0), R(1)>>
  /\ RLt(integral[2], integral[1])
  /\ RLt(reaction_xsection, R(0))

\* The object was initialized by Initialize(xsection_): it is initialized
\* and no table was allocated.
Isotropic == init /\ com_theta = NULL

\* Initialize(xsection_) returns false for xsection_ <= 0 and, unless the
\* object was initialized already (and so still is), true for xsection_ > 0.
IsotropicReturn ==
  (call.op = "Initialize" /\ call.from = "isotropic") =>
    /\ RLe(call.xsection, R(0)) => ret = FALSE
    /\ RLt(R(0), call.xsection) => (ret = TRUE \/ (ret = FALSE /\ init))
    /\ ret = TRUE => (init /\ reaction_xsection = call.xsection)

\* C16: Initialize(xsection_) returns false for xsection_ <= 0 and true for
\* xsection_ > 0 on an object not initialized; once it has returned true,
\* every Sample returns frand()*pi, which lies in [0, pi] and is not -1,
\* whatever Initialize calls failed before.
IsotropicSamples ==
  /\ IsotropicReturn
  /\ (call.op = "Sample" /\ Isotropic) =>
       /\ ret = Rad(call.frand)
       /\ RLe(R(0), ret.q)
       /\ RLe(ret.q, R(1))
       /\ ret # SampleFailed

\* C16 witness: after Initialize(xsection_) returned true on an object whose
\* num_points a refused file had left at 1, Sample drew a number and
\* returned -1.
IsotropicSampleFailed ==
  /\ call.op = "Sample"
  /\ Isotropic
  /\ num_points = 1
  /\ call.drew
  /\ ret = SampleFailed

(***************************************************************************)
(* RangeTable properties                                                   *)
(***************************************************************************)
\* The point (e, r) lies on the segment between two neighbouring entries of
\* the table.
OnTable(e, r) ==
  \E i \in 1..(num_entries - 1) :
    /\ RLe(energy[i], e)
    /\ RLe(e, energy[i + 1])
    /\ REq(RMul(RSub(r, range[i]), RSub(energy[i + 1], energy[i])),
           RMul(RSub(e, energy[i]), RSub(range[i + 1], range[i])))

\* The table holds at least two entries, its energies strictly increase and
\* e lies between its first and last energy.
Tabulates(e) ==
  /\ num_entries > 1
  /\ StrictlyIncreasing(energy)
  /\ RLe(energy[1], e)
  /\ RLe(e, energy[num_entries])

TableIncreasing ==
  use_table => (StrictlyIncreasing(energy) /\ StrictlyIncreasing(range))

\* C18 witness: Set has stored a point in a table in use whose energies do
\* not increase.
TableOutOfOrder ==
  /\ use_table
  /\ num_entries > 1
  /\ call.op = "RangeTable::Set"
  /\ ret = TRUE
  /\ ~StrictlyIncreasing(energy)

(***************************************************************************)
(* Plane geometry properties                                               *)
(***************************************************************************)
\* The inscribed radius of the polygon Initialize built: its first vertex
\* lies at x = radius*cos(-sector/2).
Apothem == polygon.lines[1].p1[1]

\* The point lies within the square of the given inscribed radius, off its
\* edges.
InsideSquare(x_, y_, a) ==
  /\ RLt(RNeg(a), x_)
  /\ RLt(x_, a)
  /\ RLt(RNeg(a), y_)
  /\ RLt(y_, a)

\* The point lies on the edge at x = a, off its ends.
OnRightEdge(x_, y_, a) == x_ = a /\ RLt(RNeg(a), y_) /\ RLt(y_, a)

\* The point lies beyond an edge of the square.
OutsideSquare(x_, y_, a) ==
  \/ RLt(x_, RNeg(a))
  \/ RLt(a, x_)
  \/ RLt(y_, RNeg(a))
  \/ RLt(a, y_)

\* C19: IsInside(x, y) on an initialized polygon returns true if the point
\* lies inside the polygon or on an edge segment, and false for every point
\* outside it.
PolygonContains ==
  (call.op = "IsInside" /\ polygon.init) =>
    IF polygon.nSides = 0 THEN ret = FALSE
    ELSE /\ InsideSquare(call.x, call.y, Apothem) => ret = TRUE
         /\ OnRightEdge(call.x, call.y, Apothem) => ret = TRUE
         /\ OutsideSquare(call.x, call.y, Apothem) => ret = FALSE

\* C19 witness: IsInside returned false for the centre of a square.
CentreOutside ==
  /\ call.op = "IsInside"
  /\ polygon.init
  /\ polygon.nSides = 4
  /\ call.x = R(0)
  /\ call.y = R(0)
  /\ ret = FALSE

\* The two directions are not zero and not parallel.
Crossing(d1_, d2_) ==
  ~REq(RMul(d1_[1], d2_[2]), RMul(d1_[2], d2_[1]))

\* C20: for any two lines in the plane that are not parallel, vertical and
\* horizontal ones included, GetT1T2 returns parameters t1 and t2 with
\* p1 + d1*t1 = p2 + d2*t2 in both x and y.
LinesMeet ==
  (call.op = "GetT1T2" /\ Crossing(call.d1, call.d2)) =>
    /\ ret = TRUE
    /\ REq(RAdd(call.p1[1], RMul(call.d1[1], t1)),
           RAdd(call.p2[1], RMul(call.d2[1], t2)))
    /\ REq(RAdd(call.p1[2], RMul(call.d1[2], t1)),
           RAdd(call.p2[2], RMul(call.d2[2], t2)))

\* C20 witness: for an oblique line through (0, 0) and a horizontal line
\* through (1, 2), which cross, GetT1T2 returned t1 = 0.
HorizontalMissed ==
  /\ call.op = "GetT1T2"
  /\ call.p1 = Vec(0, 0, 0)
  /\ call.d1 = Vec(1, 1, 0)
  /\ call.p2 = Vec(1, 2, 0)
  /\ call.d2 = Vec(1, 0, 0)
  /\ IsZero(t1)
  /\ t2 = R(-1)

\* C20, the part that holds: the parameters meet when neither line is
\* horizontal or vertical, and when the first line is vertical.
GeneralLinesMeet ==
  (/\ call.op = "GetT1T2"
   /\ \/ IsZero(call.d1[1])
      \/ (/\ ~IsZero(call.d1[2])
          /\ ~IsZero(call.d2[1])
          /\ ~IsZero(call.d2[2]))) => LinesMeet

\* Two consecutive points of the loaded table have zero cross-section.
ZeroBin ==
  \E i \in 1..(num_points - 1) :
    IsZero(dsigma_domega[i]) /\ IsZero(dsigma_domega[i + 1])

\* C21: on a table in which consecutive points have zero differential
\* cross-section, every Sample returns a well-defined angle within
\* [com_theta[0], com_theta[num_points-1]], never the quotient of a division
\* by integral[i+1] - integral[i] = 0.
SampleWellDefined ==
  (call.op = "Sample" /\ init /\ num_points > 1 /\ ZeroBin) =>
    /\ ret.pi = 1
    /\ IsFinite(ret.q)
    /\ RLe(com_theta[1], ret.q)
    /\ RLe(ret.q, com_theta[num_points])

\* C21 witness: on the table (0, 0), (45, 0), (90, 1), whose first bin has
\* integral[0] = integral[1] = 0 and whose total is positive, frand()
\* returned 0 and Sample returned 0/0.
SampleDividedByZero ==
  /\ call.op = "Sample"
  /\ init
  /\ dsigma_domega = <<R(0), R(0), R(1)>>
  /\ integral[1] = integral[2]
  /\ RLt(R(0), reaction_xsection)
  /\ call.frand = R(0)
  /\ IsNaN(ret.q)

\* C21, the part that holds: a draw that is not 0 is answered from a bin of
\* positive width, with an angle of the table.
PositiveDrawDefined ==
  (/\ call.op = "Sample"
   /\ init
   /\ num_points > 1
   /\ ZeroBin
   /\ RLt(R(0), reaction_xsection)
   /\ RLt(R(0), call.frand)) =>
    /\ ret.pi = 1
    /\ IsFinite(ret.q)
    /\ RLe(com_theta[1], ret.q)
    /\ RLe(ret.q, com_theta[num_points])

\* The counters of the event loop are ordered, and the loop runs exactly
\* while Ndetected < Nwanted.
CountersOrdered ==
  /\ Ndetected <= Nreactions
  /\ Nreactions <= Nsimulated
  /\ beam_stopped + Nreactions <= Nsimulated
  /\ Ndetected <= Nwanted
  /\ pc = "loop" => Ndetected < Nwanted
  /\ pc = "done" => Ndetected = Nwanted

\* A pass of the event loop that reaches a continue statement or the end of
\* the loop body.
Iteration == pc = "loop" /\ pc' \in {"loop", "done"}

\* C22: in every reachable state of the event loop Ndetected <= Nreactions <=
\* Nsimulated and beam_stopped + Nreactions <= Nsimulated; each iteration
\* increments Nsimulated by exactly 1 and Ndetected by at most 1; the loop
\* is left through its condition exactly when Ndetected = Nwanted, never with
\* Ndetected > Nwanted.
LoopCounters ==
  /\ []CountersOrdered
  /\ [][Iteration => /\ Nsimulated' = Nsimulated + 1
                     /\ Ndetected' \in {Ndetected, Ndetected + 1}]_vars

\* C22 witness: the loop was left with the one detection wanted, after a beam
\* particle that stopped and a reaction that was not detected.
LoopLeft ==
  /\ pc = "done"
  /\ Nwanted = 1
  /\ Ndetected = 1
  /\ beam_stopped = 1
  /\ Nreactions = 2
  /\ Nsimulated = 3

\* The last step was a pass of the event loop in which the beam particle had
\* a range in the target of at most the interaction depth.
BeamStops ==
  /\ pc = "loop"
  /\ call'.op = "Event"
  /\ call'.outcome # "trap"
  /\ RLe(RSub(call'.range_beam, call'.Zdepth), R(0))

\* C23: a beam particle with range_beam - Zdepth <= 0 is counted in
\* beam_stopped and the event ends there: Nreactions, NbarHit and Ndetected
\* are unchanged, no detector intersection is evaluated and no record or tree
\* entry is written.
BeamStopEndsEvent ==
  [][BeamStops => /\ call'.outcome = "stopped"
                  /\ beam_stopped' = beam_stopped + 1
                  /\ Nsimulated' = Nsimulated + 1
                  /\ UNCHANGED <<Nreactions, NbarHit, Ndetected, HitDetect1,
                                 HitDetect2, eject_mult, recoil_mult,
                                 entries, pc>>]_vars

\* C23 witness: after one event was detected, a beam particle whose range
\* equals the interaction depth was counted as stopped.
BeamStoppedAtDepth ==
  /\ call.op = "Event"
  /\ call.outcome = "stopped"
  /\ call.range_beam = call.Zdepth
  /\ beam_stopped = 1
  /\ Ndetected = 1
  /\ entries = 1

\* The abscissae of the last call strictly increase.
Ascending == \A i \in 1..(call.len - 1) : RLt(call.xs[i], call.xs[i + 1])

\* x_[0] <= x < x_[len-1]
InTable ==
  /\ call.len >= 2
  /\ RLe(call.xs[1], call.x)
  /\ RLt(call.x, call.xs[call.len])

\* v is the linear interpolation at x between the one adjacent pair of
\* points that holds x, and lies between their ordinates.
Interpolated(v) ==
  \E i \in 1..(call.len - 1) :
    /\ RLe(call.xs[i], call.x)
    /\ RLt(call.x, call.xs[i + 1])
    /\ \A j \in 1..(call.len - 1) :
         (RLe(call.xs[j], call.x) /\ RLt(call.x, call.xs[j + 1])) => j = i
    /\ REq(RMul(RSub(v, call.ys[i]), RSub(call.xs[i + 1], call.xs[i])),
           RMul(RSub(call.ys[i + 1], call.ys[i]), RSub(call.x, call.xs[i])))
    /\ \/ RLe(call.ys[i], v) /\ RLe(v, call.ys[i + 1])
       \/ RLe(call.ys[i + 1], v) /\ RLe(v, call.ys[i])

\* Interpolate returns true exactly inside the table and then wrote the
\* interpolated value; comConverter returns that value, and -9999 outside.
InterpolateAnswers ==
  /\ (call.op = "Interpolate" /\ Ascending) =>
       /\ ret = InTable
       /\ ret = TRUE => Interpolated(y_out)
  /\ (call.op = "convert2lab" /\ Ascending) =>
       IF InTable THEN Interpolated(ret) ELSE ret = NoConversion

RecordsCount(c) ==
  /\ c.outcome = "reaction"
  /\ IF InCoincidence THEN c.ejects > 0 /\ c.recoils > 0
     ELSE c.ejects > 0 \/ c.recoils > 0

\* Between events no record is held.
RecordsZeroed == eject_mult = 0 /\ recoil_mult = 0

SameRate(a, b) ==
  /\ REq(a.m, b.m)
  /\ IsZero(a.m) \/ a.e = b.e

\* A tabulated Initialize has just returned true.
TabulatedNow ==
  /\ call.op = "Initialize"
  /\ call.from \in {"file", "arrays"}
  /\ ret = TRUE

\* The object holds what the overload whose factor has the given decimal
\* exponent computes from the stored points and the arguments of the call.
TabulatedAs(exponent) ==
  \E t \in {Tabulate(com_theta, dsigma_domega, exponent,
                     call.beam_intensity, call.targ)} :
    /\ num_points = t.num_points
    /\ integral = t.integral
    /\ reaction_xsection = t.reaction_xsection
    /\ SameRate(rate, t.rate)

\* C26: the two tabulated Initialize overloads are equivalent: whichever of
\* them has stored the points, with the beam intensity and target of the
\* call, the object holds the num_points, integral, reaction_xsection and
\* rate that the file overload computes from them and that the arrays
\* overload computes from them.
OverloadsEquivalent ==
  TabulatedNow => TabulatedAs(-27) /\ TabulatedAs(0)

\* C26 witness: the file overload, given a target, has stored a rate that is
\* not the one the arrays overload computes from the same points.
RateScaledInFileOnly ==
  /\ TabulatedNow
  /\ call.from = "file"
  /\ ~call.targ.null
  /\ ~IsZero(reaction_xsection)
  /\ TabulatedAs(-27)
  /\ ~TabulatedAs(0)

\* Without a target both overloads store the rate 0, and apart from the
\* rate both store the same table.
OverloadsAgreeWithoutTarget ==
  TabulatedNow =>
    /\ call.targ.null => IsZero(rate.m) /\ TabulatedAs(-27) /\ TabulatedAs(0)
    /\ \E t \in {Tabulate(com_theta, dsigma_domega, 0, call.beam_intensity,
                          call.targ)} :
         /\ num_points = t.num_points
         /\ integral = t.integral
         /\ reaction_xsection = t.reaction_xsection

\* The event just simulated reached the detectors.
ReachedDetectors == call.op = "Event" /\ call.outcome = "reaction"

\* C27: whenever IntersectPrimitive returns true, both hit points and both
\* face ids were assigned by that call, so that the HitDetect2 the loop reads
\* for a hit always belongs to the intersection with the detector just
\* struck and is never left over from an earlier call.
HitPointsCurrent ==
  ReachedDetectors =>
    \A k \in DOMAIN call.reads :
      /\ call.reads[k].face_count = 2
      /\ call.reads[k].HitDetect2 # Unassigned

\* C27 witness: the ejectile started inside a detector and struck one face of
\* it, and the HitDetect2 read for that hit is the exit point of the
\* detector struck before it.
ExitPointLeftOver ==
  /\ ReachedDetectors
  /\ \E j, k \in DOMAIN call.reads :
       /\ j < k
       /\ call.reads[j].face_count = 2
       /\ call.reads[k].face_count = 1
       /\ call.reads[k].bar # call.reads[j].bar
       /\ call.reads[k].HitDetect2 = call.reads[j].HitDetect2
       /\ call.reads[k].HitDetect1 # call.reads[j].HitDetect1

\* C28: NbarHit <= Nreactions in every reachable state, for any number of
\* ejectile detectors, so that the geometric efficiency
\* NbarHit*100.0/Nreactions never exceeds 100%.
BarHitsBounded == NbarHit <= Nreactions

\* C28 witness: the ejectile of the only reaction so far passed through two
\* ejectile detectors, none of which holds the reaction point, and was
\* counted twice.
EjectileCountedTwice ==
  /\ ReachedDetectors
  /\ Nreactions = 1
  /\ NbarHit = 2
  /\ Len(call.reads) = 2
  /\ \A k \in DOMAIN call.reads : call.reads[k].face_count = 2

\* No value of Ndetected was reported twice.
ReportedOnce ==
  \A j, k \in DOMAIN report : report[j] = report[k] => j = k

\* C29: the progress report never evaluates Ndetected % chunk with
\* chunk = 0, for every Nwanted >= 1 (chunk = Nwanted/10): no pass of the
\* loop starts with flag set and chunk = 0; and the report is printed at most
\* once per value of Ndetected.
ReportRemainderDefined ==
  /\ []ReportedOnce
  /\ [][(pc = "loop" /\ call'.op = "Event") =>
          ~(Nwanted >= 1 /\ flag /\ chunk = 0)]_vars

\* C29 witness: with Nwanted = 2, so chunk = 0, the pass after the first
\* detection evaluated 1 % 0 and the program trapped.
RemainderByZero ==
  /\ pc = "fault"
  /\ call.op = "Event"
  /\ call.estimate = "trap"
  /\ Nwanted = 2
  /\ chunk = 0
  /\ Ndetected = 1
  /\ flag

\* Open on an open pack and Close on a pack that is not open return false
\* and change nothing.
Refused ==
  \/ call'.op = "Open" /\ pack.init
  \/ call'.op = "Close" /\ ~pack.init

PackRefusals == [][Refused => ret' = FALSE /\ UNCHANGED packs]_vars

\* Close on a pack whose file is open writes the tree, closes the file and
\* sets init = false.
PackCloses ==
  [][(call'.op = "Close" /\ pack.init /\ pack.file.state = "open") =>
       /\ ret' = TRUE
       /\ ~pack'.init
       /\ pack'.file.state = "closed"
       /\ pack'.tree.state = "written"
       /\ disk'[pack.file.name] = "tree"]_vars

\* An Open that cannot open the output file returns false, leaves the pack
\* not initialized and creates no tree.
FailedOpen ==
  [][(call'.op = "Open" /\ ~pack.init /\ call'.fname \notin Writable) =>
       /\ ret' = FALSE
       /\ ~pack'.init
       /\ pack'.tree = pack.tree]_vars

\* C30: Open on an open pack returns false and changes nothing; Close on a
\* pack that is not open returns false and changes nothing; Close on an open
\* pack writes the tree, closes the file and sets init = false; IsInit() is
\* true only if the output file was successfully opened: an Open that fails
\* to open the file returns false and leaves the pack not initialized, with
\* no tree created on a deleted file.
PackLifecycle ==
  /\ [](pack.init => pack.file.state = "open")
  /\ [](call.op = "IsInit" /\ ret = TRUE => pack.file.state = "open")
  /\ PackRefusals
  /\ FailedOpen
  /\ [][(call'.op = "Close" /\ pack.init) =>
          /\ ret' = TRUE
          /\ ~pack'.init
          /\ pack'.file.state = "closed"
          /\ pack'.tree.state = "written"]_vars

\* C30 witness: Open was given a name at which no file can be created; it
\* deleted the TFile, created the tree all the same and returned true, and
\* the pack is initialized.
FailedOpenInitialized ==
  /\ call.op = "Open"
  /\ call.fname \notin Writable
  /\ ret = TRUE
  /\ pack.init
  /\ pack.file.state = "deleted"
  /\ pack.tree.state = "created"

====
